---------------------------- MODULE Spec2Model ----------------------------
(***************************************************************************)
(* Model of the avsc-keyruler Avro library: the buffer cursor (Tap), the   *)
(* value validator, the schema-directed binary encoder (DatumWriter) and   *)
(* the resolving decoder (DatumReader).                                    *)
(*                                                                         *)
(* Host (JavaScript) values are tagged records:                            *)
(*   null, undefined, boolean b, number i + h/2 (h in {0,1}), string of    *)
(*   UTF-16 code units, Buffer of bytes, Array of values, and plain object *)
(*   as an insertion-ordered sequence of [key, val] entries.               *)
(* A cursor is [buf |-> sequence of bytes, pos |-> 0-based offset].        *)
(* Every codec operator returns [tap, val, err]; err = "none" on success.  *)
(***************************************************************************)
EXTENDS Integers, Sequences, FiniteSets, TLC

\* ------------------------------------------------------------------ bounds
\* Length of the caller-supplied buffer (test/io.js allocates 1024).
BufLen == 24
\* writeLong is exercised on every integer in -LongRange..LongRange.
LongRange == 150
\* Number of bytes of a buffer handed to the reader from outside.
CraftLen == 6
\* Longest JSON default string given to readDefaultValue.
MaxDefaultLen == 2
\* Most names registered in one Names registry.
MaxNames == 2

\* ------------------------------------------------------------- host values
Null == [k |-> "null"]
Undefined == [k |-> "undefined"]
Bool(b) == [k |-> "boolean", b |-> b]
Num(i) == [k |-> "number", i |-> i, h |-> 0]
\* the number i + 1/2
Half(i) == [k |-> "number", i |-> i, h |-> 1]
\* a number read from IEEE-754 bytes that is no multiple of 1/2 (or is out
\* of the modelled range); it is identified by its bit pattern
RawNum(bits) == [k |-> "number", bits |-> bits]
Str(cs) == [k |-> "string", cs |-> cs]
Buf(bs) == [k |-> "buffer", bs |-> bs]
Arr(xs) == [k |-> "array", xs |-> xs]
Obj(es) == [k |-> "object", es |-> es]
Entry(key, val) == [key |-> key, val |-> val]

\* const v = ...: the value v under a name of its own in F
Bind(v, F(_)) == F(v)

Pow2(n) == 2 ^ n

IsDyadic(d) == d.k = "number" /\ "i" \in DOMAIN d

isString(s) == s.k = "string"

isNumber(n) == n.k = "number"

\* utils.isObject: typeof obj is 'function', or 'object' (arrays and Buffers
\* as well as plain objects) and obj is not null
isObject(obj) == obj.k \in {"object", "array", "buffer", "function"}

\* ToInt32 of a number: truncation toward zero
ToInt32(d) == IF d.i < 0 /\ d.h = 1 THEN d.i + 1 ELSE d.i

\* decimal digits of a small array index, as code units
RECURSIVE DecStr(_)
DecStr(n) == IF n < 10 THEN <<48 + n>> ELSE DecStr(n \div 10) \o <<48 + (n % 10)>>

\* Object.entries(d): own enumerable string-keyed properties in order
ObjectEntries(d) ==
  CASE d.k = "object" -> d.es
    [] d.k = "array" -> [j \in 1..Len(d.xs) |-> Entry(DecStr(j - 1), d.xs[j])]
    [] d.k = "buffer" -> [j \in 1..Len(d.bs) |-> Entry(DecStr(j - 1), Num(d.bs[j]))]
    [] OTHER -> <<>>

ObjectKeys(d) == [j \in 1..Len(ObjectEntries(d)) |-> ObjectEntries(d)[j].key]

HasKey(d, key) == \E j \in 1..Len(ObjectEntries(d)) : ObjectEntries(d)[j].key = key

\* d[key]
GetProp(d, key) ==
  IF HasKey(d, key)
  THEN ObjectEntries(d)[CHOOSE j \in 1..Len(ObjectEntries(d)) : ObjectEntries(d)[j].key = key].val
  ELSE Undefined

\* obj[key] = val on a plain object: replaces in place or appends
SetProp(es, key, val) ==
  IF \E j \in 1..Len(es) : es[j].key = key
  THEN [j \in 1..Len(es) |-> IF es[j].key = key THEN Entry(key, val) ELSE es[j]]
  ELSE Append(es, Entry(key, val))

\* --------------------------------------------------------------- the cursor
Tap(buf, pos) == [buf |-> buf, pos |-> pos]

Zeros(n) == [j \in 1..n |-> 0]

Ret(tap, val, err) == [tap |-> tap, val |-> val, err |-> err]

isValid(tap) == tap.pos <= Len(tap.buf)

\* buf[pos]; an index outside the buffer reads undefined, which every
\* consumer below coerces to 0 (b & 0x80, b & 0x7f, !!b)
ByteAt(buf, pos) == IF pos >= 0 /\ pos < Len(buf) THEN buf[pos + 1] ELSE 0

\* buf[pos] = v; a store outside the buffer is ignored
SetByte(buf, pos, v) ==
  IF pos >= 0 /\ pos < Len(buf) THEN [buf EXCEPT ![pos + 1] = v % 256] ELSE buf

RECURSIVE SetBytes(_, _, _)
SetBytes(buf, pos, bs) ==
  IF bs = <<>> THEN buf ELSE SetBytes(SetByte(buf, pos, Head(bs)), pos + 1, Tail(bs))

readBoolean(tap) ==
  Ret(Tap(tap.buf, tap.pos + 1), Bool(ByteAt(tap.buf, tap.pos) # 0), "none")

skipBoolean(tap) == Tap(tap.buf, tap.pos + 1)

Truthy(d) ==
  CASE d.k = "boolean" -> d.b
    [] d.k \in {"null", "undefined"} -> FALSE
    [] d.k = "number" -> ~(IsDyadic(d) /\ d.i = 0 /\ d.h = 0)
    [] d.k = "string" -> d.cs # <<>>
    [] OTHER -> TRUE

writeBoolean(tap, b) ==
  Tap(SetByte(tap.buf, tap.pos, IF Truthy(b) THEN 1 ELSE 0), tap.pos + 1)

\* do { buf[pos] = m & 0x7f; m >>= 7 } while (m && (buf[pos++] |= 0x80)); pos++
\* for m >= 0
RECURSIVE writeVarint(_, _)
writeVarint(tap, m) ==
  IF m \div 128 # 0
  THEN writeVarint(Tap(SetByte(tap.buf, tap.pos, (m % 128) + 128), tap.pos + 1), m \div 128)
  ELSE Tap(SetByte(tap.buf, tap.pos, m % 128), tap.pos + 1)

\* writeLong with m = ~n << 1 for a negative n on the fast path, the low bit
\* that marks the sign left out
writeLong_noSignBit(tap, n) ==
  IF n.i >= -1073741824 /\ n.i < 1073741824
  THEN LET m == IF n.i >= 0 THEN ToInt32(n) * 2 ELSE (-ToInt32(n) - 1) * 2
       IN  Ret(writeVarint(tap, m), Undefined, "none")
  ELSE LET j == IF n.i >= 0 THEN n.i ELSE -(n.i + 1)
           p == IF n.i >= 0 THEN n.h ELSE 1 - n.h
           low == 2 * (j % 64) + p
           rest == j \div 64
       IN  Ret(writeVarint(Tap(SetByte(tap.buf, tap.pos, low + 128), tap.pos + 1), rest),
               Undefined, "none")

\* Tap.prototype.writeInt = Tap.prototype.writeLong.
\* Fast path: m = n >= 0 ? n << 1 : (~n << 1) | 1 on ToInt32(n).  For n in
\* (-1, 0) ToInt32(n) is 0 and m is -1: m >>= 7 stays -1, so the loop never
\* ends (err "hang").
\* Slow path: f = n >= 0 ? n * 2 : (-n * 2) - 1 is written as f = 128 * rest
\* + low with low = f & 0x7f, so that f itself (which exceeds 31 bits) is
\* never formed; f /= 128 ... while (f >= 1) then emits the digits of rest.
writeLong(tap, n) ==
  IF n.i >= -1073741824 /\ n.i < 1073741824
  THEN LET m == IF n.i >= 0 THEN ToInt32(n) * 2 ELSE ((-ToInt32(n) - 1) * 2) + 1
       IN  IF m < 0 THEN Ret(tap, Undefined, "hang")
           ELSE Ret(writeVarint(tap, m), Undefined, "none")
  ELSE LET j == IF n.i >= 0 THEN n.i ELSE -(n.i + 1)
           p == IF n.i >= 0 THEN n.h ELSE 1 - n.h
           low == 2 * (j % 64) + p
           rest == j \div 64
       IN  IF rest >= 1
           THEN Ret(writeVarint(Tap(SetByte(tap.buf, tap.pos, low + 128), tap.pos + 1), rest),
                    Undefined, "none")
           ELSE Ret(Tap(SetByte(tap.buf, tap.pos, low), tap.pos + 1), Undefined, "none")


\* the 7-bit groups read by the float-arithmetic loop of readLong, until a
\* byte without the continuation bit
RECURSIVE readHighDigits(_, _)
readHighDigits(buf, pos) ==
  LET b == ByteAt(buf, pos)
  IN  IF b >= 128 THEN <<b % 128>> \o readHighDigits(buf, pos + 1) ELSE <<b % 128>>

\* do { b = buf[pos++]; h = b & 0x80; n |= (b & 0x7f) << k; k += 7 }
\* while (h && k < 28)
RECURSIVE readLowDigits(_, _, _, _)
readLowDigits(buf, pos, n, k) ==
  LET b == ByteAt(buf, pos)
      n2 == n + (b % 128) * Pow2(k)
  IN  IF b >= 128 /\ k + 7 < 28
      THEN readLowDigits(buf, pos + 1, n2, k + 7)
      ELSE [n |-> n2, pos |-> pos + 1, h |-> b >= 128]

\* Tap.prototype.readInt = Tap.prototype.readLong.
\* Integer path: (n >> 1) ^ -(n & 1).  Float path: f = n + 2^28 * hi, result
\* (f % 2 ? -(f + 1) : f) / 2, formed from n and hi so that f is never built;
\* a result beyond 31 bits is kept as its digit pattern.
readLong(tap) ==
  Bind(readLowDigits(tap.buf, tap.pos, 0, 0), LAMBDA lo :
    IF lo.h
    THEN Bind(readHighDigits(tap.buf, lo.pos), LAMBDA ds :
         Bind(Tap(tap.buf, lo.pos + Len(ds)), LAMBDA t2 :
           IF \A j \in 1..Len(ds) : (j = 1 /\ ds[j] <= 15) \/ (j > 1 /\ ds[j] = 0)
           THEN IF lo.n % 2 = 1 /\ ~(ds[1] = 15 /\ lo.n = 268435455)
                THEN Ret(t2, Num(-(((lo.n + 1) \div 2) + 134217728 * ds[1])), "none")
                ELSE IF lo.n % 2 = 0
                THEN Ret(t2, Num((lo.n \div 2) + 134217728 * ds[1]), "none")
                ELSE Ret(t2, Num(-2147483647 - 1), "none")
           ELSE Ret(t2, RawNum(<<lo.n>> \o ds), "none")))
    ELSE Ret(Tap(tap.buf, lo.pos),
             Num(IF lo.n % 2 = 1 THEN -((lo.n \div 2) + 1) ELSE lo.n \div 2), "none"))

\* while (buf[this.pos++] & 0x80) { }
RECURSIVE skipLong(_)
skipLong(tap) ==
  IF ByteAt(tap.buf, tap.pos) >= 128
  THEN skipLong(Tap(tap.buf, tap.pos + 1))
  ELSE Tap(tap.buf, tap.pos + 1)

\* ------------------------------------------------------ IEEE-754 encodings
\* twice the number, as a signed integer
Twice(d) == 2 * d.i + d.h

Abs(x) == IF x < 0 THEN -x ELSE x

\* position of the most significant bit of q > 0
MSB(q) == CHOOSE e \in 0..30 : Pow2(e) <= q /\ (e = 30 \/ q < Pow2(e + 1))

FromTwice(neg, q) ==
  LET t == IF neg THEN -q ELSE q
  IN  [k |-> "number", i |-> t \div 2, h |-> t % 2]

\* Buffer.writeFloatLE: binary32 of the number, round to nearest, ties to even
Float32Bytes(d) ==
  Bind(Abs(Twice(d)), LAMBDA q :
    IF q = 0 THEN <<0, 0, 0, 0>>
    ELSE
    Bind(MSB(q), LAMBDA E :
    Bind(IF E <= 23 THEN q * Pow2(23 - E) ELSE q \div Pow2(E - 23), LAMBDA t0 :
    Bind(IF E <= 23 THEN 0 ELSE q % Pow2(E - 23), LAMBDA rem :
    Bind(IF E <= 23 THEN 1 ELSE Pow2(E - 24), LAMBDA halfv :
    Bind(IF E > 23 /\ (rem > halfv \/ (rem = halfv /\ t0 % 2 = 1)) THEN t0 + 1 ELSE t0,
         LAMBDA t :
    Bind(E + 126 + (IF t = 16777216 THEN 1 ELSE 0), LAMBDA bexp :
    Bind(IF t = 16777216 THEN 0 ELSE t - 8388608, LAMBDA frac :
      << frac % 256,
         (frac \div 256) % 256,
         (bexp % 2) * 128 + (frac \div 65536),
         (IF Twice(d) < 0 THEN 128 ELSE 0) + (bexp \div 2) >>))))))))

\* Buffer.readFloatLE
Float32Value(bs) ==
  LET neg == bs[4] >= 128
      bexp == (bs[4] % 128) * 2 + (bs[3] \div 128)
      frac == (bs[3] % 128) * 65536 + bs[2] * 256 + bs[1]
      m == 8388608 + frac
      E == bexp - 126
  IN  IF bexp = 0 /\ frac = 0 THEN Num(0)
      ELSE IF E < 0 \/ E > 30 THEN RawNum(bs)
      ELSE IF E >= 23 THEN FromTwice(neg, m * Pow2(E - 23))
      ELSE IF m % Pow2(23 - E) = 0 THEN FromTwice(neg, m \div Pow2(23 - E))
      ELSE RawNum(bs)

\* Buffer.writeDoubleLE: binary64 of the number (always exact here).  The 52
\* fraction bits are r = q - 2^E shifted left by 52 - E; the bytes are cut
\* out of that bit string.
Float64Bytes(d) ==
  Bind(Abs(Twice(d)), LAMBDA q :
    IF q = 0 THEN <<0, 0, 0, 0, 0, 0, 0, 0>>
    ELSE
    Bind(MSB(q), LAMBDA E :
    Bind(q - Pow2(E), LAMBDA r :
    Bind([j \in 0..5 |->
            IF 52 - E - 8 * j >= 8 THEN 0
            ELSE IF 52 - E - 8 * j >= 0 THEN ((r % 256) * Pow2(52 - E - 8 * j)) % 256
            ELSE (r \div Pow2(8 * j + E - 52)) % 256], LAMBDA piece :
      << piece[0], piece[1], piece[2], piece[3], piece[4], piece[5],
         ((E + 1022) % 16) * 16 + (IF E <= 4 THEN r * Pow2(4 - E) ELSE r \div Pow2(E - 4)),
         (IF Twice(d) < 0 THEN 128 ELSE 0) + ((E + 1022) \div 16) >>))))

\* Buffer.readDoubleLE
Float64Value(bs) ==
  LET neg == bs[8] >= 128
      bexp == (bs[8] % 128) * 16 + (bs[7] \div 16)
      top4 == bs[7] % 16
      E == bexp - 1022
      exact(v, e) == e >= 0 \/ v = 0 \/ (e >= -8 /\ v % Pow2(-e) = 0)
      term(v, e) == IF v = 0 THEN 0 ELSE IF e >= 0 THEN v * Pow2(e) ELSE v \div Pow2(-e)
  IN  IF bexp = 0 /\ top4 = 0 /\ \A j \in 1..6 : bs[j] = 0 THEN Num(0)
      ELSE IF E < 0 \/ E > 30 THEN RawNum(bs)
      ELSE IF exact(top4, E - 4) /\ \A j \in 0..5 : exact(bs[j + 1], E - 52 + 8 * j)
      THEN FromTwice(neg, Pow2(E) + term(top4, E - 4)
                          + term(bs[1], E - 52) + term(bs[2], E - 44)
                          + term(bs[3], E - 36) + term(bs[4], E - 28)
                          + term(bs[5], E - 20) + term(bs[6], E - 12))
      ELSE RawNum(bs)

\* bytes pos .. pos+len-1 of the buffer (the caller has checked the bounds)
Window(buf, pos, len) == [j \in 1..len |-> ByteAt(buf, pos + j - 1)]

readFloat(tap) ==
  LET t2 == Tap(tap.buf, tap.pos + 4)
  IN  IF t2.pos > Len(tap.buf) THEN Ret(t2, Undefined, "none")
      ELSE Ret(t2, Float32Value(Window(tap.buf, tap.pos, 4)), "none")

skipFloat(tap) == Tap(tap.buf, tap.pos + 4)

writeFloat(tap, f) ==
  IF tap.pos + 4 > Len(tap.buf) THEN Tap(tap.buf, tap.pos + 4)
  ELSE Tap(SetBytes(tap.buf, tap.pos, Float32Bytes(f)), tap.pos + 4)

readDouble(tap) ==
  LET t2 == Tap(tap.buf, tap.pos + 8)
  IN  IF t2.pos > Len(tap.buf) THEN Ret(t2, Undefined, "none")
      ELSE Ret(t2, Float64Value(Window(tap.buf, tap.pos, 8)), "none")

skipDouble(tap) == Tap(tap.buf, tap.pos + 8)

writeDouble(tap, d) ==
  IF tap.pos + 8 > Len(tap.buf) THEN Tap(tap.buf, tap.pos + 8)
  ELSE Tap(SetBytes(tap.buf, tap.pos, Float64Bytes(d)), tap.pos + 8)

\* ------------------------------------------------- fixed, bytes and strings
\* Tap.prototype.readFixed: Buffer.alloc(len) raises a RangeError for len < 0
readFixed(tap, len) ==
  LET t2 == Tap(tap.buf, tap.pos + len)
  IN  IF t2.pos > Len(tap.buf) THEN Ret(t2, Undefined, "none")
      ELSE IF len < 0 THEN Ret(t2, Undefined, "RangeError")
      ELSE Ret(t2, Buf(Window(tap.buf, tap.pos, len)), "none")

skipFixed(tap, len) == Tap(tap.buf, tap.pos + len)

Min(a, b) == IF a < b THEN a ELSE b

\* Tap.prototype.writeFixed: len = len || buf.length; buf.copy(this.buf, pos, 0, len)
writeFixed(tap, buf, len) ==
  LET l == IF len = 0 THEN Len(buf.bs) ELSE len
      t2 == Tap(tap.buf, tap.pos + l)
  IN  IF t2.pos > Len(tap.buf) THEN t2
      ELSE Tap(SetBytes(tap.buf, tap.pos, SubSeq(buf.bs, 1, Min(l, Len(buf.bs)))), t2.pos)

readBytes(tap) ==
  Bind(readLong(tap), LAMBDA n : readFixed(n.tap, n.val.i))

skipBytes(tap) ==
  Bind(readLong(tap), LAMBDA n : Tap(tap.buf, n.tap.pos + n.val.i))

writeBytes(tap, buf) ==
  Bind(writeLong(tap, Num(Len(buf.bs))), LAMBDA w :
    Ret(writeFixed(w.tap, buf, Len(buf.bs)), Undefined, w.err))

IsHighSurrogate(c) == c >= 55296 /\ c <= 56319

IsLowSurrogate(c) == c >= 56320 /\ c <= 57343

\* Buffer.byteLength(s): length of the UTF-8 form, an unpaired surrogate
\* counting as U+FFFD
RECURSIVE byteLength(_)
byteLength(cs) ==
  IF cs = <<>> THEN 0
  ELSE LET c == Head(cs)
       IN  IF c < 128 THEN 1 + byteLength(Tail(cs))
           ELSE IF c < 2048 THEN 2 + byteLength(Tail(cs))
           ELSE IF IsHighSurrogate(c) /\ Len(cs) >= 2 /\ IsLowSurrogate(cs[2])
           THEN 4 + byteLength(Tail(Tail(cs)))
           ELSE 3 + byteLength(Tail(cs))

Utf8Of(cp) ==
  IF cp < 128 THEN <<cp>>
  ELSE IF cp < 2048 THEN <<(cp \div 64) + 192, (cp % 64) + 128>>
  ELSE IF cp < 65536
  THEN <<(cp \div 4096) + 224, ((cp \div 64) % 64) + 128, (cp % 64) + 128>>
  ELSE <<(cp \div 262144) + 240, ((cp \div 4096) % 64) + 128,
         ((cp \div 64) % 64) + 128, (cp % 64) + 128>>

\* Buffer.utf8Write (strings longer than 64 bytes)
RECURSIVE utf8Write(_)
utf8Write(cs) ==
  IF cs = <<>> THEN <<>>
  ELSE LET c == Head(cs)
       IN  IF IsHighSurrogate(c) /\ Len(cs) >= 2 /\ IsLowSurrogate(cs[2])
           THEN Utf8Of(65536 + (c - 55296) * 1024 + (cs[2] - 56320)) \o utf8Write(Tail(Tail(cs)))
           ELSE IF IsHighSurrogate(c) \/ IsLowSurrogate(c)
           THEN <<239, 191, 189>> \o utf8Write(Tail(cs))
           ELSE Utf8Of(c) \o utf8Write(Tail(cs))

\* the loop  for (i = 0, l = len; i < l; i++)  of writeString: i runs up to
\* the BYTE length, so charCodeAt(i) is NaN past the end of the string and
\* the last branch then stores e0 80 80
RECURSIVE writeStringLoop(_, _, _)
writeStringLoop(cs, i, l) ==
  IF i >= l THEN <<>>
  ELSE IF i >= Len(cs) THEN <<224, 128, 128>> \o writeStringLoop(cs, i + 1, l)
  ELSE LET c1 == cs[i + 1]
       IN  IF c1 < 128 THEN <<c1>> \o writeStringLoop(cs, i + 1, l)
           ELSE IF c1 < 2048
           THEN <<(c1 \div 64) + 192, (c1 % 64) + 128>> \o writeStringLoop(cs, i + 1, l)
           ELSE IF IsHighSurrogate(c1) /\ i + 1 < Len(cs) /\ IsLowSurrogate(cs[i + 2])
           THEN Utf8Of(65536 + (c1 % 1024) * 1024 + (cs[i + 2] % 1024))
                \o writeStringLoop(cs, i + 2, l)
           ELSE <<(c1 \div 4096) + 224, ((c1 \div 64) % 64) + 128, (c1 % 64) + 128>>
                \o writeStringLoop(cs, i + 1, l)

\* writeString with the overflow test made before the position is advanced
writeString_testFirst(tap, s) ==
  IF s.k # "string" THEN Ret(tap, Undefined, "TypeError")
  ELSE Bind(byteLength(s.cs), LAMBDA len :
       Bind(writeLong(tap, Num(len)).tap, LAMBDA w :
         IF w.pos + len > Len(tap.buf) THEN Ret(w, Undefined, "none")
         ELSE Ret(Tap(SetBytes(w.buf, w.pos, writeStringLoop(s.cs, 0, len)), w.pos + len),
                  Undefined, "none")))

\* Tap.prototype.writeString
writeString(tap, s) ==
  IF s.k # "string" THEN Ret(tap, Undefined, "TypeError")
  ELSE Bind(byteLength(s.cs), LAMBDA len :
       Bind(writeLong(tap, Num(len)).tap, LAMBDA w :
         IF w.pos + len > Len(tap.buf) THEN Ret(Tap(w.buf, w.pos + len), Undefined, "none")
         ELSE IF len > 64
         THEN Ret(Tap(SetBytes(w.buf, w.pos, utf8Write(s.cs)), w.pos + len), Undefined, "none")
         ELSE Ret(Tap(SetBytes(w.buf, w.pos, writeStringLoop(s.cs, 0, len)), w.pos + len),
                  Undefined, "none")))

IsCont(b) == b >= 128 /\ b <= 191

UnitsOf(cp) ==
  IF cp < 65536 THEN <<cp>>
  ELSE <<55296 + ((cp - 65536) \div 1024), 56320 + ((cp - 65536) % 1024)>>

\* Buffer.utf8Slice: UTF-8 decoding, each maximal ill-formed part giving U+FFFD
RECURSIVE utf8Slice(_)
utf8Slice(bs) ==
  IF bs = <<>> THEN <<>>
  ELSE LET b == bs[1]
           n == Len(bs)
           rest(j) == utf8Slice(SubSeq(bs, j + 1, n))
           lo2 == IF b = 224 THEN 160 ELSE IF b = 240 THEN 144 ELSE 128
           hi2 == IF b = 237 THEN 159 ELSE IF b = 244 THEN 143 ELSE 191
           ok2 == n >= 2 /\ bs[2] >= lo2 /\ bs[2] <= hi2
       IN  IF b < 128 THEN <<b>> \o rest(1)
           ELSE IF b >= 194 /\ b <= 223
           THEN IF ok2 THEN <<(b - 192) * 64 + (bs[2] - 128)>> \o rest(2)
                ELSE <<65533>> \o rest(1)
           ELSE IF b >= 224 /\ b <= 239
           THEN IF ~ok2 THEN <<65533>> \o rest(1)
                ELSE IF n >= 3 /\ IsCont(bs[3])
                THEN <<(b - 224) * 4096 + (bs[2] - 128) * 64 + (bs[3] - 128)>> \o rest(3)
                ELSE <<65533>> \o rest(2)
           ELSE IF b >= 240 /\ b <= 244
           THEN IF ~ok2 THEN <<65533>> \o rest(1)
                ELSE IF ~(n >= 3 /\ IsCont(bs[3])) THEN <<65533>> \o rest(2)
                ELSE IF ~(n >= 4 /\ IsCont(bs[4])) THEN <<65533>> \o rest(3)
                ELSE UnitsOf((b - 240) * 262144 + (bs[2] - 128) * 4096
                             + (bs[3] - 128) * 64 + (bs[4] - 128)) \o rest(4)
           ELSE <<65533>> \o rest(1)

\* Tap.prototype.readString
readString(tap) ==
  Bind(readLong(tap), LAMBDA n :
  Bind(Tap(tap.buf, n.tap.pos + n.val.i), LAMBDA t2 :
    IF t2.pos > Len(tap.buf) THEN Ret(t2, Undefined, "none")
    ELSE IF n.val.i <= 0 THEN Ret(t2, Str(<<>>), "none")
    ELSE Ret(t2, Str(utf8Slice(Window(tap.buf, n.tap.pos, n.val.i))), "none")))

skipString(tap) ==
  Bind(readLong(tap), LAMBDA n : Tap(tap.buf, n.tap.pos + n.val.i))

\* ------------------------------------------------------------ schema nodes
\* src/constants: PRIMITIVE_TYPES
PRIMITIVE_TYPES == {"null", "boolean", "string", "bytes", "int", "long", "float", "double"}

PrimitiveSchema(type) == [type |-> type, fullname |-> type]

FixedSchema(fullname, size) == [type |-> "fixed", fullname |-> fullname, size |-> size]

EnumSchema(fullname, symbols) == [type |-> "enum", fullname |-> fullname, symbols |-> symbols]

\* a record field; default is meaningful only when hasDefault
Field(name, type, hasDefault, default) ==
  [name |-> name, type |-> type, hasDefault |-> hasDefault, default |-> default]

RecordSchema(schemaType, fullname, fields) ==
  [type |-> schemaType, fullname |-> fullname, fields |-> fields]

ArraySchema(items) == [type |-> "array", items |-> items]

MapSchema(values) == [type |-> "map", values |-> values]

UnionSchema(schemas) == [type |-> "union", schemas |-> schemas]

\* a reference, by registry key, to a named schema node: the parser makes
\* every use of a name point at the one node registered under it, which is
\* how a record comes to contain itself
Ref(key) == [type |-> "$ref", key |-> key]

\* code units of the names used in the schemas below
sA == <<65>>
sB == <<66>>
sC == <<67>>
sD == <<68>>
sE == <<69>>
sF == <<70>>
sG == <<71>>
sH == <<72>>
sX == <<120>>
sK == <<107>>
sFOO == <<70, 79, 79>>
sBAR == <<66, 65, 82>>
sBAZ == <<66, 65, 90>>
sValue == <<118>>
sCar == <<99>>
sCdr == <<100>>
sUndefined == <<117, 110, 100, 101, 102, 105, 110, 101, 100>>

IntS == PrimitiveSchema("int")
LongS == PrimitiveSchema("long")
FloatS == PrimitiveSchema("float")
DoubleS == PrimitiveSchema("double")
NullS == PrimitiveSchema("null")
BooleanS == PrimitiveSchema("boolean")
StringS == PrimitiveSchema("string")
BytesS == PrimitiveSchema("bytes")

NoDefault(name, type) == Field(name, type, FALSE, Undefined)

\* the registry of the named nodes that are reached through references:
\* the recursive Lisp/Cons pair of test/io.js, and a linked list written as
\* Node{v, next} and read as Node{v, next, H} with H lacking a default
NamedTypes(key) ==
  CASE key = "Lisp" ->
         RecordSchema("record", "Lisp",
           <<NoDefault(sValue, UnionSchema(<<NullS, StringS, Ref("Cons")>>))>>)
    [] key = "Cons" ->
         RecordSchema("record", "Cons",
           <<NoDefault(sCar, Ref("Lisp")), NoDefault(sCdr, Ref("Lisp"))>>)
    [] key = "Node" ->
         RecordSchema("record", "Node",
           <<NoDefault(sValue, IntS),
             NoDefault(sCdr, UnionSchema(<<NullS, Ref("Node")>>))>>)
    [] key = "Node'" ->
         RecordSchema("record", "Node",
           <<NoDefault(sValue, IntS),
             NoDefault(sCdr, UnionSchema(<<NullS, Ref("Node'")>>)),
             NoDefault(sH, IntS)>>)

Deref(s) == IF s.type = "$ref" THEN NamedTypes(s.key) ELSE s

\* JSON.stringify(schema) walks the object graph of the node (fields, items,
\* values, branches) and raises a TypeError when a node contains itself
RECURSIVE Circular(_, _)
Circular(s, path) ==
  CASE s.type = "$ref" ->
         s.key \in path \/ Circular(NamedTypes(s.key), path \cup {s.key})
    [] s.type \in {"record", "error", "request"} ->
         \E j \in 1..Len(s.fields) : Circular(s.fields[j].type, path)
    [] s.type = "array" -> Circular(s.items, path)
    [] s.type = "map" -> Circular(s.values, path)
    [] s.type \in {"union", "error_union"} ->
         \E j \in 1..Len(s.schemas) : Circular(s.schemas[j], path)
    [] OTHER -> FALSE

\* createSchemaResolutionError: the message embeds JSON.stringify of both
\* schemas, so building the error itself fails on a circular schema
createSchemaResolutionError(writersSchema, readersSchema) ==
  IF Circular(writersSchema, {}) \/ Circular(readersSchema, {})
  THEN "TypeError" ELSE "SchemaResolutionError"

\* createAvroTypeError: JSON.stringify(expectedSchema)
createAvroTypeError(expectedSchema) ==
  IF Circular(expectedSchema, {}) THEN "TypeError" ELSE "AvroTypeError"

\* ---------------------------------------------------------- string literals
\* the UTF-16 code units of the string literals of src/schema.js,
\* src/constants.js and of the schema texts below
Units(s) ==
  CASE s = "." -> <<46>>
    [] s = "hello" -> <<104, 101, 108, 108, 111>>
    [] s = "date" -> <<100, 97, 116, 101>>
    [] s = "Hello" -> <<72, 101, 108, 108, 111>>
    [] s = "H" -> <<72>>
    [] s = "1" -> <<49>>
    [] s = "12" -> <<49, 50>>
    [] s = "-3" -> <<45, 51>>
    [] s = "0.5" -> <<48, 46, 53>>
    [] s = "undefined" -> <<117, 110, 100, 101, 102, 105, 110, 101, 100>>
    [] s = "[object Object]" -> <<91, 111, 98, 106, 101, 99, 116, 32, 79, 98, 106, 101, 99, 116, 93>>
    [] s = "false" -> <<102, 97, 108, 115, 101>>
    [] s = "type" -> <<116, 121, 112, 101>>
    [] s = "name" -> <<110, 97, 109, 101>>
    [] s = "namespace" -> <<110, 97, 109, 101, 115, 112, 97, 99, 101>>
    [] s = "fields" -> <<102, 105, 101, 108, 100, 115>>
    [] s = "items" -> <<105, 116, 101, 109, 115>>
    [] s = "size" -> <<115, 105, 122, 101>>
    [] s = "symbols" -> <<115, 121, 109, 98, 111, 108, 115>>
    [] s = "values" -> <<118, 97, 108, 117, 101, 115>>
    [] s = "doc" -> <<100, 111, 99>>
    [] s = "default" -> <<100, 101, 102, 97, 117, 108, 116>>
    [] s = "order" -> <<111, 114, 100, 101, 114>>
    [] s = "logicalType" -> <<108, 111, 103, 105, 99, 97, 108, 84, 121, 112, 101>>
    [] s = "declared_errors" -> <<100, 101, 99, 108, 97, 114, 101, 100, 95, 101, 114, 114, 111, 114, 115>>
    [] s = "null" -> <<110, 117, 108, 108>>
    [] s = "boolean" -> <<98, 111, 111, 108, 101, 97, 110>>
    [] s = "string" -> <<115, 116, 114, 105, 110, 103>>
    [] s = "bytes" -> <<98, 121, 116, 101, 115>>
    [] s = "int" -> <<105, 110, 116>>
    [] s = "long" -> <<108, 111, 110, 103>>
    [] s = "float" -> <<102, 108, 111, 97, 116>>
    [] s = "double" -> <<100, 111, 117, 98, 108, 101>>
    [] s = "fixed" -> <<102, 105, 120, 101, 100>>
    [] s = "enum" -> <<101, 110, 117, 109>>
    [] s = "record" -> <<114, 101, 99, 111, 114, 100>>
    [] s = "error" -> <<101, 114, 114, 111, 114>>
    [] s = "array" -> <<97, 114, 114, 97, 121>>
    [] s = "map" -> <<109, 97, 112>>
    [] s = "union" -> <<117, 110, 105, 111, 110>>
    [] s = "request" -> <<114, 101, 113, 117, 101, 115, 116>>
    [] s = "error_union" -> <<101, 114, 114, 111, 114, 95, 117, 110, 105, 111, 110>>
    [] s = "ascending" -> <<97, 115, 99, 101, 110, 100, 105, 110, 103>>
    [] s = "descending" -> <<100, 101, 115, 99, 101, 110, 100, 105, 110, 103>>
    [] s = "ignore" -> <<105, 103, 110, 111, 114, 101>>
    [] s = "length" -> <<108, 101, 110, 103, 116, 104>>
    [] s = "constructor" -> <<99, 111, 110, 115, 116, 114, 117, 99, 116, 111, 114>>
    [] s = "toString" -> <<116, 111, 83, 116, 114, 105, 110, 103>>
    [] s = "keys" -> <<107, 101, 121, 115>>
    [] s = "entries" -> <<101, 110, 116, 114, 105, 101, 115>>
    [] s = "concat" -> <<99, 111, 110, 99, 97, 116>>
    [] s = "X" -> <<88>>
    [] s = "Y" -> <<89>>
    [] s = "Z" -> <<90>>
    [] s = "N" -> <<78>>
    [] s = "M" -> <<77>>
    [] s = "f" -> <<102>>
    [] s = "g" -> <<103>>
    [] s = "h" -> <<104>>
    [] s = "a" -> <<97>>
    [] s = "b" -> <<98>>
    [] s = "s" -> <<115>>
    [] s = "a.X" -> <<97, 46, 88>>
    [] s = "a.b.X" -> <<97, 46, 98, 46, 88>>
    [] s = "b.Y" -> <<98, 46, 89>>
    [] s = "c.Z" -> <<99, 46, 90>>
    [] s = "a.N" -> <<97, 46, 78>>
    [] s = "a.M" -> <<97, 46, 77>>
    [] s = "b.N" -> <<98, 46, 78>>
    [] s = "s.N" -> <<115, 46, 78>>
    [] s = "s.X" -> <<115, 46, 88>>
    [] s = ".X" -> <<46, 88>>
    [] s = "o.a.h" -> <<111, 46, 97, 46, 104>>
    [] s = "A" -> <<65>>
    [] s = "B" -> <<66>>
    [] s = "true" -> <<116, 114, 117, 101>>
    [] s = "panther" -> <<112, 97, 110, 116, 104, 101, 114>>
    [] s = "cp" -> <<99, 112>>

\* the string value of a literal
JStr(s) == Str(Units(s))

\* 'x' in {}: an own key or a member of Object.prototype
ObjectPrototypeNames == { Units(s) : s \in {"constructor", "toString"} }

\* the property name a key value is converted to
PropertyKey(v) == IF v.k = "string" THEN v.cs ELSE sUndefined

\* ------------------------------------------------------- limits of io.js
INT_MIN_VALUE == -2147483647 - 1

INT_MAX_VALUE == 2147483647

SeqIncludes(xs, x) == \E j \in 1..Len(xs) : xs[j] = x

\* ------------------------------------------------------------ logical types
\* schema.logicalType: Schema.constructor sets the property only when a
\* logical type was given
LogicalTypeOf(schema) ==
  IF "logicalType" \in DOMAIN schema THEN schema.logicalType ELSE Undefined

\* options.logicalTypes[logicalType]: an own property of the object, or a
\* member of Object.prototype, which is a function
LogicalTypeEntry(opts, logicalType) ==
  IF HasKey(opts.logicalTypes, PropertyKey(logicalType))
  THEN GetProp(opts.logicalTypes, PropertyKey(logicalType))
  ELSE IF PropertyKey(logicalType) \in ObjectPrototypeNames THEN [k |-> "function"]
  ELSE Undefined

\* the logicalTypeObject of validate, readData and writeData, Undefined when
\* their test fails
logicalTypeObject(schema, opts) ==
  IF /\ LogicalTypeOf(schema) # Undefined
     /\ opts.logicalTypes # Undefined
     /\ isObject(LogicalTypeEntry(opts, LogicalTypeOf(schema)))
  THEN LogicalTypeEntry(opts, LogicalTypeOf(schema))
  ELSE Undefined

\* whether the object has the four functions of a logical type; calling
\* one that it lacks is a TypeError
HasHooks(logicalType) == logicalType.k = "object"

\* Number.prototype.toString of i or of i + 1/2
NumberToString(n) ==
  IF n.i >= 0 THEN DecStr(n.i) \o (IF n.h = 1 THEN <<46, 53>> ELSE <<>>)
  ELSE <<45>> \o DecStr(IF n.h = 1 THEN -n.i - 1 ELSE -n.i) \o (IF n.h = 1 THEN <<46, 53>> ELSE <<>>)

\* the number a string of decimal digits spells
RECURSIVE DigitsValue(_)
DigitsValue(cs) ==
  IF cs = <<>> THEN 0 ELSE 10 * DigitsValue(SubSeq(cs, 1, Len(cs) - 1)) + (cs[Len(cs)] - 48)

\* the longest prefix of decimal digits
RECURSIVE DigitsPrefix(_)
DigitsPrefix(cs) ==
  IF cs # <<>> /\ cs[1] >= 48 /\ cs[1] <= 57 THEN <<cs[1]>> \o DigitsPrefix(Tail(cs)) ELSE <<>>

NaN == RawNum(<<0, 0, 0, 0, 0, 0, 248, 127>>)

\* Number.parseInt(string): an optional sign and the digits after it
parseInt(cs) ==
  Bind(IF cs # <<>> /\ cs[1] \in {43, 45} THEN Tail(cs) ELSE cs, LAMBDA rest :
    IF DigitsPrefix(rest) = <<>> THEN NaN
    ELSE IF cs[1] = 45 THEN Num(-DigitsValue(DigitsPrefix(rest)))
    ELSE Num(DigitsValue(DigitsPrefix(rest))))

\* the string that value + 'H' converts value to
RECURSIVE String(_)
String(value) ==
  CASE isString(value) -> value.cs
    [] IsDyadic(value) -> NumberToString(value)
    [] value.k = "undefined" -> Units("undefined")
    [] value.k = "null" -> Units("null")
    [] value.k = "boolean" -> IF value.b THEN Units("true") ELSE Units("false")
    [] value.k = "array" /\ value.xs = <<>> -> <<>>
    [] value.k = "array" /\ value.xs # <<>> ->
         (IF value.xs[1].k \in {"null", "undefined"} THEN <<>> ELSE String(value.xs[1]))
         \o (IF Len(value.xs) = 1 THEN <<>> ELSE <<44>> \o String(Arr(Tail(value.xs))))
    [] value.k = "object" -> Units("[object Object]")

\* a promise that a timer resolves with value
Promise(value) == [k |-> "promise", value |-> value, reason |-> "none"]

\* a promise that is rejected with reason
Rejected(reason) == [k |-> "promise", value |-> Undefined, reason |-> reason]

\* the functions of the logical types of test/io.js, by name: the value
\* returned (for a promise of a delayed function, the value it resolves
\* with) and the error thrown; and functions that fail with the reason "E"
\* or answer through a promise
Call(function, value) ==
  CASE function = "throwE" -> [val |-> Undefined, err |-> "E"]
    [] function = "rejectE" -> [val |-> Rejected("E"), err |-> "none"]
    [] function = "laterFalse" -> [val |-> Promise(Bool(FALSE)), err |-> "none"]
    [] function = "laterTrue" -> [val |-> Promise(Bool(TRUE)), err |-> "none"]
    [] function = "no" -> [val |-> Bool(FALSE), err |-> "none"]
    [] function = "yes" -> [val |-> Bool(TRUE), err |-> "none"]
    [] function = "isString" -> [val |-> Bool(isString(value)), err |-> "none"]
    [] function = "isNumber" -> [val |-> Bool(isNumber(value)), err |-> "none"]
    [] function = "appendH" -> [val |-> Str(String(value) \o <<72>>), err |-> "none"]
    [] function = "dropLast" /\ isString(value) ->
         [val |-> Str(SubSeq(value.cs, 1, Len(value.cs) - 1)), err |-> "none"]
    [] function = "dropLast" /\ value.k = "array" ->
         [val |-> Arr(SubSeq(value.xs, 1, Len(value.xs) - 1)), err |-> "none"]
    [] function = "dropLast" /\ value.k \notin {"string", "array"} ->
         [val |-> Undefined, err |-> "TypeError"]
    [] function = "toString" /\ isString(value) -> [val |-> value, err |-> "none"]
    [] function = "toString" /\ IsDyadic(value) ->
         [val |-> Str(NumberToString(value)), err |-> "none"]
    [] function = "toString" /\ value.k \in {"null", "undefined"} ->
         [val |-> Undefined, err |-> "TypeError"]
    [] function = "parseInt" /\ isString(value) -> [val |-> parseInt(value.cs), err |-> "none"]
    [] function = "parseInt" /\ IsDyadic(value) ->
         [val |-> parseInt(NumberToString(value)), err |-> "none"]

\* test 'Logical string add "H" at end when writing'
AddH ==
  [k |-> "object", toValue |-> "appendH", validateBeforeToValue |-> "isString",
   fromValue |-> "dropLast", validateBeforeFromValue |-> "isString", delay |-> FALSE]

\* tests 'Logical save int as string' and 'Logical save int as string with
\* delay', whose toValue and fromValue return a promise resolved by a timer
IntAsString(delay) ==
  [k |-> "object", toValue |-> "toString", validateBeforeToValue |-> "isNumber",
   fromValue |-> "parseInt", validateBeforeFromValue |-> "isString", delay |-> delay]

\* ---------------------------------------------------------------- validate
\* await x: the value a promise resolves with, any other value as it is
Await(x) == IF x.k = "promise" THEN x.value ELSE x

\* whether await x throws, and what: the reason of a rejected promise
Rejects(x) == x.k = "promise" /\ x.reason # "none"

\* datum = await ...: the outcome of a read with its value awaited
Awaited(v) ==
  IF v.err # "none" THEN v
  ELSE IF Rejects(v.val) THEN Ret(v.tap, Undefined, v.val.reason)
  ELSE Ret(v.tap, Await(v.val), "none")

\* logicalTypeObject[hook](value, schema): [val, err]
CallHook(logicalType, hook, value) ==
  Bind(Call(logicalType[hook], value), LAMBDA c :
    IF logicalType.delay /\ hook \in {"toValue", "fromValue"} /\ c.err = "none"
    THEN [val |-> Promise(c.val), err |-> "none"]
    ELSE c)

\* whether validate(expectedSchema, datum, options) throws: a registered
\* object without the function or whose function throws, at this schema or
\* at one that the table
\* _valid validates a part of the datum against; the catch block turns
\* whatever was thrown into an Error
RECURSIVE validateThrows(_, _, _)
validateThrows(expectedSchema, d, opts) ==
  Bind(Deref(expectedSchema), LAMBDA s :
    IF logicalTypeObject(s, opts) # Undefined
    THEN \/ ~HasHooks(logicalTypeObject(s, opts))
         \/ CallHook(logicalTypeObject(s, opts), "validateBeforeToValue", d).err # "none"
    ELSE CASE s.type = "array" ->
                d.k = "array" /\ \E j \in 1..Len(d.xs) : validateThrows(s.items, d.xs[j], opts)
           [] s.type = "map" ->
                isObject(d)
                /\ \E j \in 1..Len(ObjectEntries(d)) :
                     validateThrows(s.values, ObjectEntries(d)[j].val, opts)
           [] s.type \in {"union", "error_union"} ->
                \E j \in 1..Len(s.schemas) : validateThrows(s.schemas[j], d, opts)
           [] s.type \in {"record", "error", "request"} ->
                isObject(d)
                /\ \E j \in 1..Len(s.fields) :
                     validateThrows(s.fields[j].type, GetProp(d, s.fields[j].name), opts)
           [] OTHER -> FALSE)

\* validate(expectedSchema, datum, options) when it does not throw: the
\* answer of validateBeforeToValue of a registered logical type, else the
\* table _valid.  LONG_MIN_VALUE and LONG_MAX_VALUE (+-2^63) lie outside
\* every number of this model, so the long range test is always passed.
RECURSIVE validate(_, _, _)
validate(expectedSchema, d, opts) ==
  Bind(Deref(expectedSchema), LAMBDA s :
    IF logicalTypeObject(s, opts) # Undefined
    THEN HasHooks(logicalTypeObject(s, opts))
         /\ Truthy(CallHook(logicalTypeObject(s, opts), "validateBeforeToValue", d).val)
    ELSE CASE s.type = "null" -> d.k = "null"
           [] s.type = "boolean" -> d.k = "boolean"
           [] s.type = "string" -> isString(d)
           [] s.type = "bytes" -> d.k = "buffer"
           [] s.type = "int" ->
                isNumber(d) /\ INT_MIN_VALUE <= d.i
                /\ (d.i < INT_MAX_VALUE \/ (d.i = INT_MAX_VALUE /\ d.h = 0))
           [] s.type = "long" -> isNumber(d)
           [] s.type \in {"float", "double"} -> isNumber(d)
           [] s.type = "fixed" -> d.k = "buffer" /\ Len(d.bs) = s.size
           [] s.type = "enum" -> isString(d) /\ SeqIncludes(s.symbols, d.cs)
           [] s.type = "array" ->
                d.k = "array" /\ \A j \in 1..Len(d.xs) : validate(s.items, d.xs[j], opts)
           [] s.type = "map" ->
                isObject(d)
                /\ \A j \in 1..Len(ObjectEntries(d)) : validate(s.values, ObjectEntries(d)[j].val, opts)
           [] s.type \in {"union", "error_union"} ->
                \E j \in 1..Len(s.schemas) : validate(s.schemas[j], d, opts)
           [] s.type \in {"record", "error", "request"} ->
                isObject(d)
                /\ (\A j \in 1..Len(s.fields) : validate(s.fields[j].type, GetProp(d, s.fields[j].name), opts))
                /\ \A j \in 1..Len(ObjectKeys(d)) :
                     \E f \in 1..Len(s.fields) : s.fields[f].name = ObjectKeys(d)[j])

\* ------------------------------------------------------------ matchSchemas
checkFullname(a, b) == a.fullname = b.fullname

\* matchSchemas without the comparison of the sizes of two fixed schemas
matchSchemas_anySize(writersSchema, readersSchema) ==
  Bind(Deref(writersSchema), LAMBDA w :
  Bind(Deref(readersSchema), LAMBDA r :
    \/ {w.type, r.type} \cap {"union", "error_union"} # {}
    \/ w.type \in PRIMITIVE_TYPES /\ w.type = r.type
    \/ w.type \in {"record", "error", "fixed", "enum"} /\ w.type = r.type /\ checkFullname(w, r)
    \/ w.type = "request" /\ r.type = "request"
    \/ w.type = "map" /\ r.type = "map" /\ Deref(w.values).type = Deref(r.values).type
    \/ w.type = "array" /\ r.type = "array" /\ Deref(w.items).type = Deref(r.items).type
    \/ w.type = "int" /\ r.type \in {"long", "float", "double"}
    \/ w.type = "long" /\ r.type \in {"float", "double"}
    \/ w.type = "float" /\ r.type = "double"))

\* DatumReader.matchSchemas
matchSchemas(writersSchema, readersSchema) ==
  Bind(Deref(writersSchema), LAMBDA w :
  Bind(Deref(readersSchema), LAMBDA r :
    IF {w.type, r.type} \cap {"union", "error_union"} # {} THEN TRUE
    ELSE IF w.type \in PRIMITIVE_TYPES /\ r.type \in PRIMITIVE_TYPES /\ w.type = r.type THEN TRUE
    ELSE IF w.type = "record" /\ r.type = "record" /\ checkFullname(w, r) THEN TRUE
    ELSE IF w.type = "error" /\ r.type = "error" /\ checkFullname(w, r) THEN TRUE
    ELSE IF w.type = "request" /\ r.type = "request" THEN TRUE
    ELSE IF w.type = "fixed" /\ r.type = "fixed" /\ checkFullname(w, r) /\ w.size = r.size
    THEN TRUE
    ELSE IF w.type = "enum" /\ r.type = "enum" /\ checkFullname(w, r) THEN TRUE
    ELSE IF w.type = "map" /\ r.type = "map" /\ Deref(w.values).type = Deref(r.values).type
    THEN TRUE
    ELSE IF w.type = "array" /\ r.type = "array" /\ Deref(w.items).type = Deref(r.items).type
    THEN TRUE
    ELSE IF w.type = "int" /\ r.type \in {"long", "float", "double"} THEN TRUE
    ELSE IF w.type = "long" /\ r.type \in {"float", "double"} THEN TRUE
    ELSE IF w.type = "float" /\ r.type = "double" THEN TRUE
    ELSE FALSE))

\* ------------------------------------------------------------- DatumWriter
\* the largest i with validate(schemas[i], datum): the loop of writeUnion
\* assigns indexOfSchema on every match and does not stop at the first
LastValidBranch(schemas, datum, opts) ==
  Bind({j \in 1..Len(schemas) : validate(schemas[j], datum, opts)}, LAMBDA valid :
    IF valid = {} THEN 0 ELSE CHOOSE j \in valid : \A o \in valid : o <= j)

\* Array.prototype.indexOf, 0-based, -1 when absent
IndexOf(xs, x) ==
  IF SeqIncludes(xs, x) THEN (CHOOSE j \in 1..Len(xs) : xs[j] = x /\ \A o \in 1..(j - 1) : xs[o] # x) - 1
  ELSE -1

RECURSIVE writeData(_, _, _, _)
RECURSIVE writeItems(_, _, _, _, _)
RECURSIVE writeEntries(_, _, _, _, _)
RECURSIVE writeFields(_, _, _, _, _)

\* DatumWriter.writeEnum
writeEnum(writersSchema, datum, tap) ==
  writeLong(tap, Num(IndexOf(writersSchema.symbols, IF isString(datum) THEN datum.cs ELSE <<>>)))

\* for (const item of datum) await this.writeData(writersSchema.items, item, tap)
writeItems(items, xs, j, tap, opts) ==
  IF j > Len(xs) THEN Ret(tap, Undefined, "none")
  ELSE Bind(writeData(items, xs[j], tap, opts), LAMBDA w :
         IF w.err # "none" THEN w ELSE writeItems(items, xs, j + 1, w.tap, opts))

\* DatumWriter.writeArray
writeArray(writersSchema, datum, tap, opts) ==
  IF Len(datum.xs) > 0
  THEN Bind(writeItems(writersSchema.items, datum.xs, 1,
                       writeLong(tap, Num(Len(datum.xs))).tap, opts), LAMBDA w :
         IF w.err # "none" THEN w ELSE writeLong(w.tap, Num(0)))
  ELSE writeLong(tap, Num(0))

\* for (const [key, val] of entries) { tap.writeString(key); await writeData(values, val) }
writeEntries(values, es, j, tap, opts) ==
  IF j > Len(es) THEN Ret(tap, Undefined, "none")
  ELSE Bind(writeData(values, es[j].val, writeString(tap, Str(es[j].key)).tap, opts), LAMBDA w :
         IF w.err # "none" THEN w ELSE writeEntries(values, es, j + 1, w.tap, opts))

\* DatumWriter.writeMap
writeMap(writersSchema, datum, tap, opts) ==
  Bind(ObjectEntries(datum), LAMBDA entries :
    IF Len(entries) > 0
    THEN Bind(writeEntries(writersSchema.values, entries, 1,
                           writeLong(tap, Num(Len(entries))).tap, opts), LAMBDA w :
           IF w.err # "none" THEN w ELSE writeLong(w.tap, Num(0)))
    ELSE writeLong(tap, Num(0)))

\* DatumWriter.writeUnion
writeUnion(writersSchema, datum, tap, opts) ==
  IF \E j \in 1..Len(writersSchema.schemas) : validateThrows(writersSchema.schemas[j], datum, opts)
  THEN Ret(tap, Undefined, "Error")
  ELSE Bind(LastValidBranch(writersSchema.schemas, datum, opts) - 1, LAMBDA indexOfSchema :
         IF indexOfSchema < 0 THEN Ret(tap, Undefined, createAvroTypeError(writersSchema))
         ELSE writeData(writersSchema.schemas[indexOfSchema + 1], datum,
                        writeLong(tap, Num(indexOfSchema)).tap, opts))

\* for (const field of writersSchema.fields) await writeData(field.type, datum[field.name])
writeFields(fields, datum, j, tap, opts) ==
  IF j > Len(fields) THEN Ret(tap, Undefined, "none")
  ELSE Bind(writeData(fields[j].type, GetProp(datum, fields[j].name), tap, opts), LAMBDA w :
         IF w.err # "none" THEN w ELSE writeFields(fields, datum, j + 1, w.tap, opts))

\* DatumWriter.writeRecord
writeRecord(writersSchema, datum, tap, opts) == writeFields(writersSchema.fields, datum, 1, tap, opts)

\* logicalTypeObject.toValue(datum, writersSchema) of a registered logical
\* type, with the datum itself otherwise: [val, err]
toValue(s, datum, opts) ==
  IF logicalTypeObject(s, opts) = Undefined THEN [val |-> datum, err |-> "none"]
  ELSE IF ~HasHooks(logicalTypeObject(s, opts)) THEN [val |-> Undefined, err |-> "TypeError"]
  ELSE CallHook(logicalTypeObject(s, opts), "toValue", datum)

\* the switch of DatumWriter.writeData
writeByType(s, datumToWrite, tap, opts) ==
  CASE s.type = "null" -> Ret(tap, Undefined, "none")
    [] s.type = "boolean" -> Ret(writeBoolean(tap, datumToWrite), Undefined, "none")
    [] s.type = "string" -> writeString(tap, datumToWrite)
    [] s.type \in {"int", "long"} -> writeLong(tap, datumToWrite)
    [] s.type = "float" -> Ret(writeFloat(tap, datumToWrite), Undefined, "none")
    [] s.type = "double" -> Ret(writeDouble(tap, datumToWrite), Undefined, "none")
    [] s.type = "bytes" -> writeBytes(tap, datumToWrite)
    [] s.type = "fixed" -> Ret(writeFixed(tap, datumToWrite, s.size), Undefined, "none")
    [] s.type = "enum" -> writeEnum(s, datumToWrite, tap)
    [] s.type = "array" -> writeArray(s, datumToWrite, tap, opts)
    [] s.type = "map" -> writeMap(s, datumToWrite, tap, opts)
    [] s.type \in {"union", "error_union"} -> writeUnion(s, datumToWrite, tap, opts)
    [] s.type \in {"record", "error", "request"} -> writeRecord(s, datumToWrite, tap, opts)
    [] OTHER -> Ret(tap, Undefined, "Error")

\* DatumWriter.writeData: datumToWrite = await toValue(datum), then the switch
writeData(writersSchema, datum, tap, opts) ==
  Bind(Deref(writersSchema), LAMBDA s :
    Bind(toValue(s, datum, opts), LAMBDA v :
      IF v.err # "none" THEN Ret(tap, Undefined, v.err)
      ELSE IF Rejects(v.val) THEN Ret(tap, Undefined, v.val.reason)
      ELSE writeByType(s, Await(v.val), tap, opts)))

\* DatumWriter.write: validate first, then writeData
write(writersSchema, datum, tap, opts) ==
  IF validateThrows(writersSchema, datum, opts) THEN Ret(tap, Undefined, "Error")
  ELSE IF ~validate(writersSchema, datum, opts)
  THEN Ret(tap, Undefined, createAvroTypeError(writersSchema))
  ELSE writeData(writersSchema, datum, tap, opts)

\* ------------------------------------------------------------- DatumReader
\* fieldsDict[name]: the field of that name, or undefined (0)
FieldIndex(fields, name) ==
  IF \E j \in 1..Len(fields) : fields[j].name = name
  THEN CHOOSE j \in 1..Len(fields) : fields[j].name = name
  ELSE 0

RECURSIVE skipData(_, _)
RECURSIVE skipItems(_, _, _)
RECURSIVE skipArrayBlocks(_, _)
RECURSIVE skipPairs(_, _, _)
RECURSIVE skipMapBlocks(_, _)
RECURSIVE skipFields(_, _, _)

\* for (let i = 0; i < blockCount; i++) this.skipData(writersSchema.items, tap)
skipItems(items, n, tap) ==
  IF n <= 0 THEN Ret(tap, Undefined, "none")
  ELSE Bind(skipData(items, tap), LAMBDA k :
         IF k.err # "none" THEN k ELSE skipItems(items, n - 1, k.tap))

\* DatumReader.skipArray; Tap has no method skip, so the call tap.skip(blockSize)
\* of the negative-count branch raises a TypeError
skipArrayBlocks(writersSchema, tap) ==
  Bind(readLong(tap), LAMBDA c :
    IF c.val.i = 0 THEN Ret(c.tap, Undefined, "none")
    ELSE IF c.val.i < 0 THEN Ret(readLong(c.tap).tap, Undefined, "TypeError")
    ELSE Bind(skipItems(writersSchema.items, c.val.i, c.tap), LAMBDA k :
           IF k.err # "none" THEN k ELSE skipArrayBlocks(writersSchema, k.tap)))

\* for (...) { tap.skipString(); this.skipData(writersSchema.values, tap) }
skipPairs(values, n, tap) ==
  IF n <= 0 THEN Ret(tap, Undefined, "none")
  ELSE Bind(skipData(values, skipString(tap)), LAMBDA k :
         IF k.err # "none" THEN k ELSE skipPairs(values, n - 1, k.tap))

\* DatumReader.skipMap
skipMapBlocks(writersSchema, tap) ==
  Bind(readLong(tap), LAMBDA c :
    IF c.val.i = 0 THEN Ret(c.tap, Undefined, "none")
    ELSE IF c.val.i < 0 THEN Ret(readLong(c.tap).tap, Undefined, "TypeError")
    ELSE Bind(skipPairs(writersSchema.values, c.val.i, c.tap), LAMBDA k :
           IF k.err # "none" THEN k ELSE skipMapBlocks(writersSchema, k.tap)))

\* DatumReader.skipUnion; a negative index selects undefined, whose .type
\* cannot be read
skipUnion(writersSchema, tap) ==
  Bind(readLong(tap), LAMBDA c :
    IF c.val.i >= Len(writersSchema.schemas)
    THEN Ret(c.tap, Undefined, createSchemaResolutionError(writersSchema, NullS))
    ELSE IF c.val.i < 0 THEN Ret(c.tap, Undefined, "TypeError")
    ELSE skipData(writersSchema.schemas[c.val.i + 1], c.tap))

skipFields(fields, j, tap) ==
  IF j > Len(fields) THEN Ret(tap, Undefined, "none")
  ELSE Bind(skipData(fields[j].type, tap), LAMBDA k :
         IF k.err # "none" THEN k ELSE skipFields(fields, j + 1, k.tap))

\* DatumReader.skipRecord
skipRecord(writersSchema, tap) == skipFields(writersSchema.fields, 1, tap)

\* DatumReader.skipEnum
skipEnum(writersSchema, tap) == skipLong(tap)

\* DatumReader.skipData; the string case calls tap.skipUtf8(), which Tap does
\* not define (its method is skipString): a TypeError
skipData(writersSchema, tap) ==
  Bind(Deref(writersSchema), LAMBDA s :
    CASE s.type = "null" -> Ret(tap, Undefined, "none")
      [] s.type = "boolean" -> Ret(skipBoolean(tap), Undefined, "none")
      [] s.type = "string" -> Ret(tap, Undefined, "TypeError")
      [] s.type \in {"int", "long"} -> Ret(skipLong(tap), Undefined, "none")
      [] s.type = "float" -> Ret(skipFloat(tap), Undefined, "none")
      [] s.type = "double" -> Ret(skipDouble(tap), Undefined, "none")
      [] s.type = "bytes" -> Ret(skipBytes(tap), Undefined, "none")
      [] s.type = "fixed" -> Ret(skipFixed(tap, s.size), Undefined, "none")
      [] s.type = "enum" -> Ret(skipEnum(s, tap), Undefined, "none")
      [] s.type = "array" -> skipArrayBlocks(s, tap)
      [] s.type = "map" -> skipMapBlocks(s, tap)
      [] s.type \in {"union", "error_union"} -> skipUnion(s, tap)
      [] s.type \in {"record", "error", "request"} -> skipRecord(s, tap)
      [] OTHER -> Ret(tap, Undefined, "Error"))

\* bytes of Buffer.from(defaultValue): the UTF-8 form of a string, the
\* elements (mod 256) of an array of numbers, a TypeError otherwise
BufferFrom(v) ==
  CASE v.k = "string" -> Ret(<<>>, Buf(utf8Write(v.cs)), "none")
    [] v.k = "array" /\ (\A j \in 1..Len(v.xs) : IsDyadic(v.xs[j])) ->
         Ret(<<>>, Buf([j \in 1..Len(v.xs) |-> ToInt32(v.xs[j]) % 256]), "none")
    [] v.k = "buffer" -> Ret(<<>>, v, "none")
    [] OTHER -> Ret(<<>>, Undefined, "TypeError")

RECURSIVE readDefaultValue(_, _)
RECURSIVE readDefaultItems(_, _, _, _)
RECURSIVE readDefaultEntries(_, _, _, _)
RECURSIVE readDefaultFields(_, _, _, _)

readDefaultItems(items, xs, j, acc) ==
  IF j > Len(xs) THEN Ret(<<>>, Arr(acc), "none")
  ELSE Bind(readDefaultValue(items, xs[j]), LAMBDA v :
         IF v.err # "none" THEN v ELSE readDefaultItems(items, xs, j + 1, Append(acc, v.val)))

readDefaultEntries(values, es, j, acc) ==
  IF j > Len(es) THEN Ret(<<>>, Obj(acc), "none")
  ELSE Bind(readDefaultValue(values, es[j].val), LAMBDA v :
         IF v.err # "none" THEN v
         ELSE readDefaultEntries(values, es, j + 1, SetProp(acc, es[j].key, v.val)))

readDefaultFields(fields, defaultValue, j, acc) ==
  IF j > Len(fields) THEN Ret(<<>>, Obj(acc), "none")
  ELSE Bind(GetProp(defaultValue, fields[j].name), LAMBDA given :
       Bind(readDefaultValue(fields[j].type,
                             IF given = Undefined THEN fields[j].default ELSE given),
            LAMBDA v :
         IF v.err # "none" THEN v
         ELSE readDefaultFields(fields, defaultValue, j + 1,
                                SetProp(acc, fields[j].name, v.val))))

\* DatumReader.readDefaultValue; the tap component of the result is unused
readDefaultValue(fieldSchema, defaultValue) ==
  Bind(Deref(fieldSchema), LAMBDA s :
    CASE s.type = "null" -> Ret(<<>>, Null, "none")
      [] s.type \in {"boolean", "int", "long", "float", "double", "enum", "string"} ->
           Ret(<<>>, defaultValue, "none")
      [] s.type \in {"fixed", "bytes"} -> BufferFrom(defaultValue)
      [] s.type = "array" ->
           IF defaultValue.k = "array" THEN readDefaultItems(s.items, defaultValue.xs, 1, <<>>)
           ELSE Ret(<<>>, Undefined, "TypeError")
      [] s.type = "map" ->
           IF defaultValue.k \in {"null", "undefined"} THEN Ret(<<>>, Undefined, "TypeError")
           ELSE readDefaultEntries(s.values, ObjectEntries(defaultValue), 1, <<>>)
      [] s.type \in {"union", "error_union"} -> readDefaultValue(s.schemas[1], defaultValue)
      [] s.type = "record" ->
           IF defaultValue.k \in {"null", "undefined"} THEN Ret(<<>>, Undefined, "TypeError")
           ELSE readDefaultFields(s.fields, defaultValue, 1, <<>>)
      [] OTHER -> Ret(<<>>, Undefined, "Error"))

RECURSIVE readData(_, _, _, _)
RECURSIVE readItems(_, _, _, _, _, _)
RECURSIVE readArrayBlocks(_, _, _, _, _)
RECURSIVE readPairs(_, _, _, _, _, _)
RECURSIVE readMapBlocks(_, _, _, _, _)
RECURSIVE readWriterFields(_, _, _, _, _, _)
RECURSIVE fillDefaults(_, _, _, _)

\* readEnum without the look-up of the symbol among the reader's symbols
readEnum_anySymbol(writersSchema, readersSchema, tap) ==
  Bind(readLong(tap), LAMBDA c :
  Bind(c.val.i, LAMBDA indexOfSymbol :
    IF indexOfSymbol >= Len(writersSchema.symbols) \/ indexOfSymbol < 0
    THEN Ret(c.tap, Undefined, createSchemaResolutionError(writersSchema, readersSchema))
    ELSE Ret(c.tap, Str(writersSchema.symbols[indexOfSymbol + 1]), "none")))

\* DatumReader.readEnum; symbols[i] for a negative i is undefined, which the
\* reader's symbols never include
readEnum(writersSchema, readersSchema, tap) ==
  Bind(readLong(tap), LAMBDA c :
  Bind(c.val.i, LAMBDA indexOfSymbol :
    IF indexOfSymbol >= Len(writersSchema.symbols)
    THEN Ret(c.tap, Undefined, createSchemaResolutionError(writersSchema, readersSchema))
    ELSE IF indexOfSymbol < 0
            \/ ~SeqIncludes(readersSchema.symbols, writersSchema.symbols[indexOfSymbol + 1])
    THEN Ret(c.tap, Undefined, createSchemaResolutionError(writersSchema, readersSchema))
    ELSE Ret(c.tap, Str(writersSchema.symbols[indexOfSymbol + 1]), "none")))

\* for (let i = 0; i < blockCount; i++) readItems.push(await this.readData(...))
readItems(wItems, rItems, n, tap, acc, opts) ==
  IF n <= 0 THEN Ret(tap, acc, "none")
  ELSE Bind(Awaited(readData(wItems, rItems, tap, opts)), LAMBDA v :
         IF v.err # "none" THEN v
         ELSE readItems(wItems, rItems, n - 1, v.tap, Append(acc, v.val), opts))

\* DatumReader.readArray: on a negative count, blockCount = -blockCount and
\* the block size is read and dropped
readArrayBlocks(writersSchema, readersSchema, tap, acc, opts) ==
  Bind(readLong(tap), LAMBDA c :
    IF c.val.i = 0 THEN Ret(c.tap, Arr(acc), "none")
    ELSE Bind(readItems(writersSchema.items, readersSchema.items,
                        IF c.val.i < 0 THEN -c.val.i ELSE c.val.i,
                        IF c.val.i < 0 THEN readLong(c.tap).tap ELSE c.tap, acc, opts), LAMBDA v :
           IF v.err # "none" THEN v
           ELSE readArrayBlocks(writersSchema, readersSchema, v.tap, v.val, opts)))

\* for (...) { const key = tap.readString(); readItems[key] = await this.readData(...) }
readPairs(wValues, rValues, n, tap, acc, opts) ==
  IF n <= 0 THEN Ret(tap, acc, "none")
  ELSE Bind(readString(tap), LAMBDA key :
       Bind(Awaited(readData(wValues, rValues, key.tap, opts)), LAMBDA v :
         IF v.err # "none" THEN v
         ELSE readPairs(wValues, rValues, n - 1, v.tap,
                        SetProp(acc, PropertyKey(key.val), v.val), opts)))

\* DatumReader.readMap: on a negative count, blockCount = -blockCount is
\* followed by blockCount = tap.readLong(), so the block size becomes the
\* number of entries read
readMapBlocks(writersSchema, readersSchema, tap, acc, opts) ==
  Bind(readLong(tap), LAMBDA c :
    IF c.val.i = 0 THEN Ret(c.tap, Obj(acc), "none")
    ELSE Bind(IF c.val.i < 0 THEN readLong(c.tap) ELSE c, LAMBDA blockCount :
         Bind(readPairs(writersSchema.values, readersSchema.values,
                        blockCount.val.i, blockCount.tap, acc, opts), LAMBDA v :
           IF v.err # "none" THEN v
           ELSE readMapBlocks(writersSchema, readersSchema, v.tap, v.val, opts))))

\* DatumReader.readUnion
readUnion(writersSchema, readersSchema, tap, opts) ==
  Bind(readLong(tap), LAMBDA c :
  Bind(c.val.i, LAMBDA indexOfSchema :
    IF indexOfSchema >= Len(writersSchema.schemas)
    THEN Ret(c.tap, Undefined, createSchemaResolutionError(writersSchema, readersSchema))
    ELSE IF indexOfSchema < 0 THEN Ret(c.tap, Undefined, "TypeError")
    ELSE readData(writersSchema.schemas[indexOfSchema + 1], readersSchema, c.tap, opts)))

\* first loop of readRecord: each writer field is read into the record when
\* the reader has a field of that name and skipped otherwise
readWriterFields(wFields, rFields, j, tap, acc, opts) ==
  IF j > Len(wFields) THEN Ret(tap, acc, "none")
  ELSE Bind(FieldIndex(rFields, wFields[j].name), LAMBDA rf :
         IF rf # 0
         THEN Bind(Awaited(readData(wFields[j].type, rFields[rf].type, tap, opts)), LAMBDA v :
                IF v.err # "none" THEN v
                ELSE readWriterFields(wFields, rFields, j + 1, v.tap,
                                      SetProp(acc, wFields[j].name, v.val), opts))
         ELSE Bind(skipData(wFields[j].type, tap), LAMBDA k :
                IF k.err # "none" THEN k
                ELSE readWriterFields(wFields, rFields, j + 1, k.tap, acc, opts)))

\* second loop of readRecord: reader fields that the writer lacks
fillDefaults(writersSchema, readersSchema, j, acc) ==
  Bind(readersSchema.fields, LAMBDA rFields :
    IF j > Len(rFields) THEN Ret(<<>>, acc, "none")
    ELSE IF FieldIndex(writersSchema.fields, rFields[j].name) # 0
    THEN fillDefaults(writersSchema, readersSchema, j + 1, acc)
    ELSE IF rFields[j].hasDefault
    THEN Bind(readDefaultValue(rFields[j].type, rFields[j].default), LAMBDA v :
           IF v.err # "none" THEN v
           ELSE fillDefaults(writersSchema, readersSchema, j + 1,
                             SetProp(acc, rFields[j].name, v.val)))
    ELSE Ret(<<>>, Undefined, createSchemaResolutionError(writersSchema, readersSchema)))

\* DatumReader.readRecord
readRecord(writersSchema, readersSchema, tap, opts) ==
  Bind(readWriterFields(writersSchema.fields, readersSchema.fields, 1, tap, <<>>, opts),
       LAMBDA read :
    IF read.err # "none" THEN read
    ELSE IF Len(readersSchema.fields) > Len(read.val)
    THEN Bind(fillDefaults(writersSchema, readersSchema, 1, read.val), LAMBDA filled :
           Ret(read.tap, IF filled.err = "none" THEN Obj(filled.val) ELSE Undefined,
               filled.err))
    ELSE Ret(read.tap, Obj(read.val), "none"))

\* the first reader branch that matches the writer's schema, 0 if none
FirstMatchingBranch(writersSchema, schemas) ==
  Bind({j \in 1..Len(schemas) : matchSchemas(writersSchema, schemas[j])}, LAMBDA ms :
    IF ms = {} THEN 0 ELSE CHOOSE j \in ms : \A o \in ms : j <= o)

\* the end of DatumReader.readData: the datum read, or what fromValue of a
\* registered logical type returns for it when validateBeforeFromValue
\* accepts it.  v is the outcome of the switch
fromValue(r, v, opts) ==
  IF v.err # "none" \/ logicalTypeObject(r, opts) = Undefined THEN v
  ELSE IF ~HasHooks(logicalTypeObject(r, opts)) THEN Ret(v.tap, Undefined, "TypeError")
  ELSE Bind(CallHook(logicalTypeObject(r, opts), "validateBeforeFromValue", v.val), LAMBDA c :
         IF c.err # "none" THEN Ret(v.tap, Undefined, c.err)
         ELSE IF ~Truthy(c.val) THEN v
         ELSE Bind(CallHook(logicalTypeObject(r, opts), "fromValue", v.val), LAMBDA f :
                Ret(v.tap, f.val, f.err)))

\* DatumReader.readData
readData(writersSchema, readersSchema, tap, opts) ==
  Bind(Deref(writersSchema), LAMBDA w :
  Bind(Deref(readersSchema), LAMBDA r :
    IF ~matchSchemas(w, r)
    THEN Ret(tap, Undefined, createSchemaResolutionError(w, r))
    ELSE IF w.type \notin {"union", "error_union"} /\ r.type \in {"union", "error_union"}
    THEN Bind(FirstMatchingBranch(w, r.schemas), LAMBDA b :
           IF b = 0 THEN Ret(tap, Undefined, createSchemaResolutionError(w, r))
           ELSE readData(w, r.schemas[b], tap, opts))
    ELSE fromValue(r, Awaited(
         CASE w.type = "null" -> Ret(tap, Null, "none")
           [] w.type = "boolean" -> readBoolean(tap)
           [] w.type = "string" -> readString(tap)
           [] w.type \in {"int", "long"} -> readLong(tap)
           [] w.type = "float" -> readFloat(tap)
           [] w.type = "double" -> readDouble(tap)
           [] w.type = "bytes" -> readBytes(tap)
           [] w.type = "fixed" -> readFixed(tap, w.size)
           [] w.type = "enum" -> readEnum(w, r, tap)
           [] w.type = "array" -> readArrayBlocks(w, r, tap, <<>>, opts)
           [] w.type = "map" -> readMapBlocks(w, r, tap, <<>>, opts)
           [] w.type \in {"union", "error_union"} -> readUnion(w, r, tap, opts)
           [] w.type \in {"record", "error", "request"} -> readRecord(w, r, tap, opts)
           [] OTHER -> Ret(tap, Undefined, "Error")), opts)))

\* DatumReader.read: the reader's schema defaults to the writer's
read(writersSchema, readersSchema, tap, opts) == readData(writersSchema, readersSchema, tap, opts)

\* assert.deepStrictEqual on host values: plain objects are compared by
\* their key/value pairs, whatever the order of their keys
RECURSIVE DeepEqual(_, _)
DeepEqual(a, b) ==
  IF a.k # b.k THEN FALSE
  ELSE CASE a.k = "array" ->
              Len(a.xs) = Len(b.xs) /\ \A j \in 1..Len(a.xs) : DeepEqual(a.xs[j], b.xs[j])
         [] a.k = "object" ->
              Len(a.es) = Len(b.es)
              /\ \A j \in 1..Len(a.es) : HasKey(b, a.es[j].key)
                                         /\ DeepEqual(a.es[j].val, GetProp(b, a.es[j].key))
         [] OTHER -> a = b

\* ---------------------------------------------------- schemas and values
\* test/io.js: LONG_RECORD_SCHEMA and LONG_RECORD_DATUM
LONG_RECORD_SCHEMA ==
  RecordSchema("record", "Test",
    <<NoDefault(sA, IntS), NoDefault(sB, IntS), NoDefault(sC, IntS), NoDefault(sD, IntS),
      NoDefault(sE, IntS), NoDefault(sF, IntS), NoDefault(sG, IntS)>>)

LONG_RECORD_DATUM ==
  Obj(<<Entry(sA, Num(1)), Entry(sB, Num(2)), Entry(sC, Num(3)), Entry(sD, Num(4)),
        Entry(sE, Num(5)), Entry(sF, Num(6)), Entry(sG, Num(7))>>)

FixedTest == FixedSchema("Test", 2)
EnumTest == EnumSchema("Test", <<sA, sB>>)
EnumFooBar == EnumSchema("Test", <<sFOO, sBAR>>)
EnumBarBaz == EnumSchema("Test", <<sBAR, sBAZ>>)
EnumFoo == EnumSchema("Test", <<sFOO>>)
RecordTest == RecordSchema("record", "Test", <<NoDefault(sF, LongS)>>)
RecordEmpty == RecordSchema("record", "Empty", <<>>)

\* test/io.js: SCHEMAS_TO_VALIDATE, and unions several of whose branches
\* accept one value
RoundTripSchemas ==
  { NullS, BooleanS, StringS, BytesS, IntS, LongS, FloatS, DoubleS,
    FixedTest, EnumTest, ArraySchema(LongS), MapSchema(LongS),
    UnionSchema(<<StringS, NullS, LongS>>), RecordTest, Ref("Lisp"), Ref("Node"),
    UnionSchema(<<IntS, LongS>>), UnionSchema(<<StringS, EnumTest>>),
    UnionSchema(<<DoubleS, FloatS>>), UnionSchema(<<NullS, Ref("Node")>>), RecordEmpty }

\* the types a record field can have
FieldTypes ==
  { NullS, BooleanS, IntS, LongS, FloatS, DoubleS, BytesS, StringS,
    FixedSchema("Fx", 2), EnumSchema("En", <<sA, sB>>), ArraySchema(LongS), MapSchema(LongS),
    UnionSchema(<<StringS, NullS, LongS>>), RecordSchema("record", "In", <<NoDefault(sF, LongS)>>) }

\* writer record {x: T, k: int}, read as {k: int}
ProjWriter(T) == RecordSchema("record", "Proj", <<NoDefault(sX, T), NoDefault(sK, IntS)>>)

ProjReader == RecordSchema("record", "Proj", <<NoDefault(sK, IntS)>>)

\* test/io.js: 'Test projection', 'Test field order'
ReaderEF == RecordSchema("record", "Test", <<NoDefault(sE, IntS), NoDefault(sF, IntS)>>)

ReaderFE == RecordSchema("record", "Test", <<NoDefault(sF, IntS), NoDefault(sE, IntS)>>)

\* test/io.js: the reader of 'Test default values' and of 'Test no default value'
DefaultReader(T, default) == RecordSchema("record", "Test", <<Field(sH, T, TRUE, default)>>)

NoDefaultReader == RecordSchema("record", "Test", <<NoDefault(sH, IntS)>>)

ReaderEH ==
  RecordSchema("record", "Test", <<Field(sH, IntS, TRUE, Num(0)), NoDefault(sE, IntS)>>)

\* test/io.js: DEFAULT_VALUE_EXAMPLES (field type, JSON default)
DEFAULT_VALUE_EXAMPLES ==
  { <<NullS, Null>>, <<BooleanS, Bool(TRUE)>>, <<StringS, Str(sFOO)>>,
    <<BytesS, Str(<<255, 255>>)>>, <<IntS, Num(5)>>, <<LongS, Num(5)>>,
    <<FloatS, Half(1)>>, <<DoubleS, Half(1)>>,
    <<FixedSchema("F", 2), Str(<<255, 255>>)>>, <<FixedSchema("F", 2), Str(<<65, 66>>)>>,
    <<EnumSchema("F", <<sFOO, sBAR>>), Str(sFOO)>>,
    <<ArraySchema(IntS), Arr(<<Num(1), Num(2), Num(3)>>)>>,
    <<MapSchema(IntS), Obj(<<Entry(sA, Num(1)), Entry(sB, Num(2))>>)>>,
    <<UnionSchema(<<IntS, NullS>>), Num(5)>>,
    <<RecordSchema("record", "F", <<NoDefault(sA, IntS)>>), Obj(<<Entry(sA, Num(5))>>)>> }

\* (writer's schema, reader's schema) of the reads that resolve two schemas
ResolutionPairs ==
  { <<IntS, LongS>>, <<IntS, FloatS>>, <<IntS, DoubleS>>, <<LongS, FloatS>>,
    <<LongS, DoubleS>>, <<FloatS, DoubleS>>, <<LongS, IntS>>, <<DoubleS, FloatS>> }
  \cup { <<ProjWriter(T), ProjReader>> : T \in FieldTypes }
  \cup { <<LONG_RECORD_SCHEMA, ReaderEF>>, <<LONG_RECORD_SCHEMA, ReaderFE>>,
         <<LONG_RECORD_SCHEMA, NoDefaultReader>>, <<LONG_RECORD_SCHEMA, ReaderEH>>,
         <<Ref("Node"), Ref("Node'")>> }
  \cup { <<LONG_RECORD_SCHEMA, DefaultReader(e[1], e[2])>> : e \in DEFAULT_VALUE_EXAMPLES }
  \cup { <<IntS, UnionSchema(<<StringS, LongS, DoubleS>>)>>,
         <<IntS, UnionSchema(<<StringS, NullS>>)>>,
         <<IntS, UnionSchema(<<NullS, Ref("Node")>>)>>,
         <<EnumFooBar, UnionSchema(<<StringS, EnumBarBaz>>)>>,
         <<RecordTest, UnionSchema(<<NullS, RecordTest>>)>>,
         <<EnumFooBar, EnumBarBaz>> }

Pairs == { <<S, S>> : S \in RoundTripSchemas } \cup ResolutionPairs

NodeDatum(v, next) == Obj(<<Entry(sValue, Num(v)), Entry(sCdr, next)>>)

LispDatum(v) == Obj(<<Entry(sValue, v)>>)

\* values of every kind; among the numbers 1.5 and -0.5, which are no
\* integers, and 2^24 + 1, which no binary32 holds
BaseData ==
  { Null, Bool(TRUE), Bool(FALSE), Str(<<>>), Str(sA), Str(sFOO), Str(<<233>>),
    Str(<<55357>>), Str(<<55357, 56832>>), Buf(<<>>), Buf(<<66, 255>>),
    Num(0), Num(5), Num(1234), Num(-1), Half(1), Half(-1), Num(16777217),
    Arr(<<>>), Arr(<<Num(1), Num(3), Num(2)>>),
    Obj(<<>>), Obj(<<Entry(sA, Num(1)), Entry(sB, Num(3))>>), Obj(<<Entry(sF, Num(5))>>) }

Data ==
  BaseData
  \cup { Obj(<<Entry(sX, v), Entry(sK, Num(7))>>) : v \in BaseData }
  \cup { LONG_RECORD_DATUM,
         NodeDatum(1, Null), NodeDatum(1, NodeDatum(2, Null)),
         LispDatum(Null),
         LispDatum(Obj(<<Entry(sCar, LispDatum(Str(sH))), Entry(sCdr, LispDatum(Null))>>)) }

\* ------------------------------------------------------------ state machine
VARIABLES
  writersSchema,   \* DatumWriter.writersSchema / DatumReader.writersSchema
  readersSchema,   \* DatumReader.readersSchema
  datum,           \* the value handed to write (the JSON default in SpecDefault)
  buf,             \* the bytes of the buffer both taps wrap
  pos,             \* position of the writer's tap
  rpos,            \* position of the reader's tap
  result,          \* outcome of the last operation: [op, err, val]
  options,         \* DatumWriter.options / DatumReader.options
  pc               \* "start", "awaiting", "written", "loaded", "done", ...

vars == <<writersSchema, readersSchema, datum, buf, pos, rpos, result, options, pc>>

\* options || {}: no options were given
NoOptions == [logicalTypes |-> Undefined]

NoResult == [op |-> "none", err |-> "none", val |-> Undefined]

Init ==
  /\ options = NoOptions
  /\ \E p \in Pairs : writersSchema = p[1] /\ readersSchema = p[2]
  /\ datum \in Data
  /\ buf = Zeros(BufLen)
  /\ pos = 0
  /\ rpos = 0
  /\ result = NoResult
  /\ pc = "start"

\* what write gets from toValue of the logical type of the schema itself
\* once the datum is validated: a promise that a timer resolves makes write
\* wait at its first await.  A promise met deeper in the datum is awaited
\* within the step
firstToValue(schema, d, opts) ==
  IF ~validateThrows(schema, d, opts) /\ validate(schema, d, opts)
  THEN toValue(Deref(schema), d, opts)
  ELSE [val |-> Undefined, err |-> "none"]

\* await datumWriter.write(datum, new Tap(buffer))
Write ==
  /\ pc = "start"
  /\ \E v \in {firstToValue(writersSchema, datum, options)} :
       IF v.val.k = "promise"
       THEN /\ result' = [op |-> "toValue", err |-> "none", val |-> v.val]
            /\ pc' = "awaiting"
            /\ UNCHANGED <<buf, pos>>
       ELSE \E w \in {write(writersSchema, datum, Tap(buf, pos), options)} :
              /\ buf' = w.tap.buf
              /\ pos' = w.tap.pos
              /\ result' = [op |-> "write", err |-> w.err, val |-> Undefined]
              /\ pc' = "written"
  /\ UNCHANGED <<options, writersSchema, readersSchema, datum, rpos>>

\* the promise of toValue is settled: writeData goes on with the value, or
\* throws the reason
SettleWrite ==
  /\ pc = "awaiting"
  /\ result.op = "toValue"
  /\ \E w \in {IF Rejects(result.val) THEN Ret(Tap(buf, pos), Undefined, result.val.reason)
               ELSE writeByType(Deref(writersSchema), Await(result.val), Tap(buf, pos), options)} :
       /\ buf' = w.tap.buf
       /\ pos' = w.tap.pos
       /\ result' = [op |-> "write", err |-> w.err, val |-> Undefined]
  /\ pc' = "written"
  /\ UNCHANGED <<options, writersSchema, readersSchema, datum, rpos>>

\* new DatumReader(writersSchema, readersSchema).read(new Tap(buffer)) on the
\* bytes a completed write left, or on bytes that came from elsewhere
Read ==
  /\ \/ pc = "written" /\ result.err = "none"
     \/ pc = "loaded"
  /\ \E r \in {read(writersSchema, readersSchema, Tap(buf, 0), options)} :
       /\ rpos' = r.tap.pos
       /\ IF r.err = "none" /\ r.val.k = "promise"
          THEN result' = [op |-> "fromValue", err |-> "none", val |-> r.val] /\ pc' = "awaiting"
          ELSE result' = [op |-> "read", err |-> r.err, val |-> r.val] /\ pc' = "done"
  /\ UNCHANGED <<options, writersSchema, readersSchema, datum, buf, pos>>

\* the promise of fromValue, which read returned, is settled
SettleRead ==
  /\ pc = "awaiting"
  /\ result.op = "fromValue"
  /\ result' = IF Rejects(result.val)
               THEN [op |-> "read", err |-> result.val.reason, val |-> Undefined]
               ELSE [op |-> "read", err |-> "none", val |-> Await(result.val)]
  /\ pc' = "done"
  /\ UNCHANGED <<options, writersSchema, readersSchema, datum, buf, pos, rpos>>

Next == Write \/ Read

Spec == Init /\ [][Next]_vars

\* writeInt / writeLong on a range of integers and on the ends of the fast
\* path and of the int range
LongInputs ==
  (-LongRange..LongRange)
  \cup { 8192, -8193, 1073741823, 1073741824, -1073741824, -1073741825,
         INT_MAX_VALUE, INT_MIN_VALUE }

InitLong ==
  /\ options = NoOptions
  /\ writersSchema \in {IntS, LongS}
  /\ readersSchema = writersSchema
  /\ datum \in { Num(n) : n \in LongInputs }
  /\ buf = Zeros(BufLen)
  /\ pos = 0
  /\ rpos = 0
  /\ result = NoResult
  /\ pc = "start"

SpecLong == InitLong /\ [][Next]_vars

\* bytes that did not come from this writer
CraftBytes == {0, 1, 2, 3}

DecodePairs ==
  { <<ArraySchema(IntS), ArraySchema(IntS)>>, <<MapSchema(IntS), MapSchema(IntS)>>,
    <<EnumFooBar, EnumBarBaz>>, <<EnumFoo, EnumFooBar>>, <<EnumFooBar, EnumFooBar>> }

InitDecode ==
  /\ options = NoOptions
  /\ \E p \in DecodePairs : writersSchema = p[1] /\ readersSchema = p[2]
  /\ datum = Undefined
  /\ buf \in [1..CraftLen -> CraftBytes]
  /\ pos = 0
  /\ rpos = 0
  /\ result = NoResult
  /\ pc = "loaded"

NextDecode == Read

SpecDecode == InitDecode /\ [][NextDecode]_vars

\* every pair of schemas handed to matchSchemas
MatchPool ==
  { PrimitiveSchema(t) : t \in PRIMITIVE_TYPES }
  \cup { FixedTest, FixedSchema("Test", 3), FixedSchema("Other", 2),
         EnumTest, EnumSchema("Other", <<sA, sB>>), EnumBarBaz,
         RecordTest, LONG_RECORD_SCHEMA, RecordSchema("record", "Other", <<NoDefault(sF, LongS)>>),
         RecordSchema("error", "Test", <<NoDefault(sF, LongS)>>),
         RecordSchema("error", "Other", <<NoDefault(sF, LongS)>>),
         RecordSchema("request", "", <<NoDefault(sF, LongS)>>),
         RecordSchema("request", "", <<>>),
         ArraySchema(IntS), ArraySchema(LongS), ArraySchema(ArraySchema(IntS)),
         ArraySchema(ArraySchema(StringS)),
         MapSchema(IntS), MapSchema(LongS), MapSchema(RecordTest),
         MapSchema(RecordSchema("record", "Other", <<>>)),
         UnionSchema(<<NullS, IntS>>), [type |-> "error_union", schemas |-> <<StringS, RecordTest>>],
         Ref("Lisp"), Ref("Cons") }

InitMatch ==
  /\ options = NoOptions
  /\ writersSchema \in MatchPool
  /\ readersSchema \in MatchPool
  /\ datum = Undefined
  /\ buf = <<>>
  /\ pos = 0
  /\ rpos = 0
  /\ result = NoResult
  /\ pc = "start"

\* DatumReader.matchSchemas(writersSchema, readersSchema)
Match ==
  /\ pc = "start"
  /\ result' = [op |-> "match", err |-> "none",
                val |-> Bool(matchSchemas(writersSchema, readersSchema))]
  /\ pc' = "done"
  /\ UNCHANGED <<options, writersSchema, readersSchema, datum, buf, pos, rpos>>

NextMatch == Match

SpecMatch == InitMatch /\ [][NextMatch]_vars

\* code units of the JSON default strings
DefaultUnits == {65, 127, 128, 255}

DefaultStrings ==
  UNION { [1..n -> DefaultUnits] : n \in 0..MaxDefaultLen }

InitDefault ==
  /\ options = NoOptions
  /\ writersSchema = NullS
  /\ readersSchema \in {BytesS, FixedSchema("F", 1), FixedSchema("F", 2)}
  /\ datum \in { Str(cs) : cs \in DefaultStrings }
  /\ buf = <<>>
  /\ pos = 0
  /\ rpos = 0
  /\ result = NoResult
  /\ pc = "start"

\* DatumReader.readDefaultValue(field.type, field.default)
ReadDefault ==
  /\ pc = "start"
  /\ \E v \in {readDefaultValue(readersSchema, datum)} :
       result' = [op |-> "default", err |-> v.err, val |-> v.val]
  /\ pc' = "done"
  /\ UNCHANGED <<options, writersSchema, readersSchema, datum, buf, pos, rpos>>

NextDefault == ReadDefault

SpecDefault == InitDefault /\ [][NextDefault]_vars

\* records of each kind with a field x of several types beside k: int
ValidateSchemas ==
  { RecordSchema(t, "V", <<NoDefault(sX, T), NoDefault(sK, IntS)>>) :
      t \in {"record", "error", "request"},
      T \in {NullS, IntS, StringS, UnionSchema(<<NullS, LongS>>),
             UnionSchema(<<StringS, LongS>>), ArraySchema(NullS)} }
  \cup { RecordEmpty, RecordTest, RecordSchema("record", "V", <<NoDefault(sK, NullS)>>) }

\* values with the key x present, absent, or beside a key no field declares
ValidateData ==
  BaseData
  \cup { Obj(<<Entry(sX, v), Entry(sK, Num(7))>>) :
           v \in {Null, Undefined, Num(5), Str(sA), Arr(<<Null>>)} }
  \cup { Obj(<<Entry(sK, Num(7))>>), Obj(<<Entry(sK, Null)>>),
         Obj(<<Entry(sK, Num(7)), Entry(sX, Null)>>),
         Obj(<<Entry(sX, Null), Entry(sK, Num(7)), Entry(sF, Num(1))>>),
         Obj(<<Entry(sX, Null)>>), Arr(<<Num(1)>>), Buf(<<1>>) }

InitValidate ==
  /\ options = NoOptions
  /\ writersSchema \in ValidateSchemas
  /\ readersSchema = writersSchema
  /\ datum \in ValidateData
  /\ buf = <<>>
  /\ pos = 0
  /\ rpos = 0
  /\ result = NoResult
  /\ pc = "start"

\* validate(expectedSchema, datum)
Validate ==
  /\ pc = "start"
  /\ result' = [op |-> "validate", err |-> "none", val |-> Bool(validate(writersSchema, datum, options))]
  /\ pc' = "done"
  /\ UNCHANGED <<options, writersSchema, readersSchema, datum, buf, pos, rpos>>

NextValidate == Validate

SpecValidate == InitValidate /\ [][NextValidate]_vars

\* ------------------------------------------------------------------ schema
\* src/constants: NAMED_TYPES, VALID_TYPES, the reserved property names and
\* the field sort orders
NAMED_TYPES == {"fixed", "enum", "record", "error"}

VALID_TYPES == {"array", "map", "union", "request", "error_union"} \cup PRIMITIVE_TYPES \cup NAMED_TYPES

SCHEMA_RESERVED_PROPS ==
  { Units(s) : s \in {"type", "name", "namespace", "fields", "items", "size", "symbols",
                      "values", "doc"} }

FIELD_RESERVED_PROPS == { Units(s) : s \in {"default", "name", "doc", "order", "type"} }

VALID_FIELD_SORT_ORDERS == { Units(s) : s \in {"ascending", "descending", "ignore"} }

\* the member t of a list of type names that a JSON value spells, "" if none
TypeIn(v, types) ==
  IF v.k = "string" /\ \E t \in types : Units(t) = v.cs
  THEN CHOOSE t \in types : Units(t) = v.cs
  ELSE ""

\* getOtherProps(allProps, reservedProps) on the entries of an object
getOtherProps(es, reservedProps) == SelectSeq(es, LAMBDA e : e.key \notin reservedProps)

\* 'x' in VALID_TYPES: the in operator of an Array asks for a property name
\* (an index, length, or a member of Array.prototype), not for an element
ArrayPropertyNames(n) ==
  { DecStr(j) : j \in 0..(n - 1) }
  \cup { Units(s) : s \in {"length", "constructor", "toString", "map", "values", "keys",
                           "entries", "concat"} }

\* String.prototype.indexOf('.')
DotIndex(cs) == IndexOf(cs, 46)

\* result of a constructor or method of the schema module: the value, the
\* Names registry after the call, and the error thrown ("none" if none)
PRet(val, names, err) == [val |-> val, names |-> names, err |-> err]

\* new Name with the default namespace taken before the namespace
Name_defaultFirst(nameAttr, spaceAttr, defaultSpace) ==
  IF ~(isString(nameAttr) \/ nameAttr = Undefined) \/ nameAttr = Str(<<>>)
  THEN [_full |-> Undefined, err |-> "Error"]
  ELSE IF ~(isString(spaceAttr) \/ spaceAttr = Undefined) \/ spaceAttr = Str(<<>>)
  THEN [_full |-> Undefined, err |-> "Error"]
  ELSE IF ~(isString(defaultSpace) \/ defaultSpace = Undefined) \/ defaultSpace = Str(<<>>)
  THEN [_full |-> Undefined, err |-> "Error"]
  ELSE IF nameAttr = Undefined THEN [_full |-> Undefined, err |-> "TypeError"]
  ELSE IF DotIndex(nameAttr.cs) < 0
  THEN IF defaultSpace # Undefined /\ defaultSpace # Str(<<>>)
       THEN [_full |-> Str(defaultSpace.cs \o <<46>> \o nameAttr.cs), err |-> "none"]
       ELSE IF spaceAttr # Undefined /\ spaceAttr # Str(<<>>)
       THEN [_full |-> Str(spaceAttr.cs \o <<46>> \o nameAttr.cs), err |-> "none"]
       ELSE [_full |-> nameAttr, err |-> "none"]
  ELSE [_full |-> nameAttr, err |-> "none"]

\* new Name(nameAttr, spaceAttr, defaultSpace): [_full, err]
Name(nameAttr, spaceAttr, defaultSpace) ==
  IF ~(isString(nameAttr) \/ nameAttr = Undefined) \/ nameAttr = Str(<<>>)
  THEN [_full |-> Undefined, err |-> "Error"]
  ELSE IF ~(isString(spaceAttr) \/ spaceAttr = Undefined) \/ spaceAttr = Str(<<>>)
  THEN [_full |-> Undefined, err |-> "Error"]
  ELSE IF ~(isString(defaultSpace) \/ defaultSpace = Undefined) \/ defaultSpace = Str(<<>>)
  THEN [_full |-> Undefined, err |-> "Error"]
  ELSE IF nameAttr = Undefined THEN [_full |-> Undefined, err |-> "TypeError"]
  ELSE IF DotIndex(nameAttr.cs) < 0
  THEN IF spaceAttr # Undefined /\ spaceAttr # Str(<<>>)
       THEN [_full |-> Str(spaceAttr.cs \o <<46>> \o nameAttr.cs), err |-> "none"]
       ELSE IF defaultSpace # Undefined /\ defaultSpace # Str(<<>>)
       THEN [_full |-> Str(defaultSpace.cs \o <<46>> \o nameAttr.cs), err |-> "none"]
       ELSE [_full |-> nameAttr, err |-> "none"]
  ELSE [_full |-> nameAttr, err |-> "none"]

\* Name.getSpace: this._full.split('.', 1).reverse()[0], the text before the
\* first dot, when the first dot is not the first character
getSpace(name) ==
  IF name._full = Undefined THEN Undefined
  ELSE IF DotIndex(name._full.cs) > 0
  THEN Str(SubSeq(name._full.cs, 1, DotIndex(name._full.cs)))
  ELSE Undefined

\* new Names(defaultNamespace); names is the object of the registered
\* schemas by fullname
Names(defaultNamespace) == [names |-> <<>>, defaultNamespace |-> defaultNamespace]

\* Object.prototype.hasOwnProperty.call(this.names, key)
hasOwnName(names, key) == \E j \in 1..Len(names.names) : names.names[j].key = key

\* the object registered under a fullname, named by that fullname: every use
\* of a name is the one object that was registered
SRef(fullname) == [type |-> "$ref", key |-> fullname]

\* Names.hasName(nameAttr, spaceAttr): [val, err]
hasName(names, nameAttr, spaceAttr) ==
  Bind(Name(nameAttr, spaceAttr, names.defaultNamespace), LAMBDA test :
    IF test.err # "none" THEN [val |-> FALSE, err |-> test.err]
    ELSE [val |-> hasOwnName(names, test._full.cs), err |-> "none"])

\* Names.getName(nameAttr, spaceAttr)
getName(names, nameAttr, spaceAttr) ==
  Bind(Name(nameAttr, spaceAttr, names.defaultNamespace), LAMBDA test :
    IF test.err # "none" THEN [val |-> Undefined, err |-> test.err]
    ELSE IF ~hasOwnName(names, test._full.cs) THEN [val |-> Undefined, err |-> "none"]
    ELSE [val |-> SRef(test._full.cs), err |-> "none"])

\* Names.pruneNamespace(properties) on the entries of the properties
pruneNamespace(names, properties) ==
  IF names.defaultNamespace = Undefined THEN properties
  ELSE IF ~\E j \in 1..Len(properties) : properties[j].key = Units("namespace") THEN properties
  ELSE IF GetProp(Obj(properties), Units("namespace")) # names.defaultNamespace THEN properties
  ELSE SelectSeq(properties, LAMBDA e : e.key # Units("namespace"))

\* Names.addName(nameAttr, spaceAttr, newSchema): val is the Name added
addName(names, nameAttr, spaceAttr, newSchema) ==
  Bind(Name(nameAttr, spaceAttr, names.defaultNamespace), LAMBDA toAdd :
    IF toAdd.err # "none" THEN PRet(Undefined, names, toAdd.err)
    ELSE IF toAdd._full.cs \in ArrayPropertyNames(Cardinality(VALID_TYPES))
    THEN PRet(Undefined, names, "Error")
    ELSE IF hasOwnName(names, toAdd._full.cs) THEN PRet(Undefined, names, "Error")
    ELSE PRet(toAdd, [names EXCEPT !.names = Append(@, Entry(toAdd._full.cs, newSchema))],
              "none"))

\* arguments handed to new Name and to Names.addName
NameAttrs == { JStr("X"), JStr("N"), JStr("a.X"), JStr("a.b.X"), JStr(".X"), JStr("int"),
               JStr("record"), JStr("map"), Str(<<>>), Undefined }

SpaceAttrs == { Undefined, Str(<<>>), JStr("s"), JStr("o.a.h"), Null }

InitName ==
  /\ options = NoOptions
  /\ writersSchema = Undefined
  /\ readersSchema = Undefined
  /\ datum \in { Arr(<<nameAttr, spaceAttr, defaultSpace>>) :
                   nameAttr \in NameAttrs, spaceAttr \in SpaceAttrs, defaultSpace \in SpaceAttrs }
  /\ buf = <<>>
  /\ pos = 0
  /\ rpos = 0
  /\ result = NoResult
  /\ pc = "start"

\* new Name(nameAttr, spaceAttr, defaultSpace).fullname
NewName ==
  /\ pc = "start"
  /\ \E n \in {Name(datum.xs[1], datum.xs[2], datum.xs[3])} :
       result' = [op |-> "name", err |-> n.err, val |-> n._full]
  /\ pc' = "done"
  /\ UNCHANGED <<options, writersSchema, readersSchema, datum, buf, pos, rpos>>

NextName == NewName

SpecName == InitName /\ [][NextName]_vars

InitNames ==
  /\ options = NoOptions
  /\ writersSchema \in { Names(d) : d \in {Undefined, JStr("a")} }
  /\ readersSchema = Undefined
  /\ datum = Undefined
  /\ buf = <<>>
  /\ pos = 0
  /\ rpos = 0
  /\ result = NoResult
  /\ pc = "start"

\* names.addName(nameAttr, spaceAttr, newSchema) on the registry in
\* writersSchema; newSchema is named by the number of the call
AddName ==
  /\ pc = "start"
  /\ Len(writersSchema.names) < MaxNames
  /\ \E nameAttr \in NameAttrs, spaceAttr \in SpaceAttrs :
       /\ datum' = Arr(<<nameAttr, spaceAttr>>)
       /\ \E a \in {addName(writersSchema, nameAttr, spaceAttr, Num(Len(writersSchema.names)))} :
            /\ writersSchema' = a.names
            /\ result' = [op |-> "addName", err |-> a.err,
                          val |-> IF a.err = "none" THEN a.val._full ELSE Undefined]
  /\ UNCHANGED <<options, readersSchema, buf, pos, rpos, pc>>

NextNames == AddName

SpecNames == InitNames /\ [][NextNames]_vars

\* ------------------------------------------------------ schema constructors
\* A schema object is [type, props, logicalType] and what its class adds:
\* fullname; fields (each [props, type, name, hasDefault]); items; values;
\* schemas.  props holds the plain properties in the order they were set;
\* the schema objects among the properties (items, values, fields, a field's
\* type) are kept beside it under their own names.

\* a property of a JSON object
P(key, val) == Entry(Units(key), val)

\* jsonData[key]
Prop(jsonData, key) == GetProp(jsonData, Units(key))

\* jsonData instanceof Object, for the values JSON.parse gives
InstanceOfObject(v) == v.k \in {"object", "array"}

\* Schema.constructor: the type, then the other properties spread over it
Schema(type, otherProps, logicalType) ==
  [type |-> type,
   props |-> <<P("type", JStr(type))>> \o otherProps,
   logicalType |-> logicalType]

\* otherProps || {} spread into the properties: the own enumerable
\* properties of the value, for a string its characters by index
Spread(otherProps) ==
  IF isString(otherProps)
  THEN [j \in 1..Len(otherProps.cs) |-> Entry(DecStr(j - 1), Str(<<otherProps.cs[j]>>))]
  ELSE ObjectEntries(otherProps)

\* new PrimitiveSchema(type, otherProps, logicalType)
newPrimitiveSchema(type, otherProps, logicalType) ==
  [type |-> type,
   props |-> Schema(type, otherProps, logicalType).props,
   logicalType |-> logicalType,
   fullname |-> Units(type)]

\* NamedSchema.constructor; line 338 calls newName.get_space(), which Name
\* does not define (its method is getSpace): a TypeError
newNamedSchema(type, name, namespace, names, otherProps, logicalType) ==
  IF name = Undefined THEN PRet(Undefined, names, "Error")
  ELSE IF ~isString(name) THEN PRet(Undefined, names, "Error")
  ELSE IF namespace # Undefined /\ ~isString(namespace) THEN PRet(Undefined, names, "Error")
  ELSE Bind(addName(names, name, namespace, [type |-> type]), LAMBDA newName :
         IF newName.err # "none" THEN PRet(Undefined, names, newName.err)
         ELSE IF namespace # Undefined THEN PRet(Undefined, newName.names, "TypeError")
         ELSE PRet([type |-> type,
                    props |-> Append(Schema(type, otherProps, logicalType).props,
                                     P("name", name)),
                    logicalType |-> logicalType,
                    fullname |-> newName.val._full.cs],
                   newName.names, "none"))

\* obj.setProp(key, value) on a schema object under construction
setProp(schema, key, value) ==
  [schema EXCEPT !.props = SetProp(@, Units(key), value)]

\* setProp when the value is defined
setPropIfDefined(schema, key, value) ==
  IF value # Undefined THEN setProp(schema, key, value) ELSE schema

\* new FixedSchema(name, namespace, size, names, otherProps, logicalType)
newFixedSchema(name, namespace, size, names, otherProps, logicalType) ==
  IF ~isNumber(size) \/ size.i < 0 THEN PRet(Undefined, names, "Error")
  ELSE Bind(newNamedSchema("fixed", name, namespace, names, otherProps, logicalType),
            LAMBDA n : IF n.err # "none" THEN n
                       ELSE PRet(setProp(n.val, "size", size), n.names, "none"))

\* new EnumSchema(name, namespace, symbols, names, doc, otherProps, logicalType)
newEnumSchema(name, namespace, symbols, names, doc, otherProps, logicalType) ==
  IF symbols.k # "array" THEN PRet(Undefined, names, "Error")
  ELSE IF \E j \in 1..Len(symbols.xs) : ~isString(symbols.xs[j])
  THEN PRet(Undefined, names, "Error")
  ELSE IF \E i, j \in 1..Len(symbols.xs) : i # j /\ symbols.xs[i] = symbols.xs[j]
  THEN PRet(Undefined, names, "Error")
  ELSE Bind(newNamedSchema("enum", name, namespace, names, otherProps, logicalType),
            LAMBDA n : IF n.err # "none" THEN n
                       ELSE PRet(setPropIfDefined(setProp(n.val, "symbols", symbols), "doc", doc),
                                 n.names, "none"))

RECURSIVE makeAvscObject(_, _)
RECURSIVE makeFieldObjects(_, _, _, _)
RECURSIVE schemaObjects(_, _, _, _)

\* a catch block that throws a new Error in place of whatever was thrown
Rethrow(r) == IF r.err # "none" THEN PRet(Undefined, r.names, "Error") ELSE r

\* the schema a type stands for, as Field, UnionSchema, ArraySchema and
\* MapSchema each find it: a known name is that name's object, anything else
\* is built; hasName is called outside the try block
typeSchema(type, names) ==
  IF isString(type)
  THEN Bind(hasName(names, type, Undefined), LAMBDA known :
         IF known.err # "none" THEN PRet(Undefined, names, known.err)
         ELSE IF known.val THEN PRet(getName(names, type, Undefined).val, names, "none")
         ELSE Rethrow(makeAvscObject(type, names)))
  ELSE Rethrow(makeAvscObject(type, names))

\* new Field(type, name, hasDefault, defaultValue, order, names, doc, otherProps)
newField(type, name, hasDefault, defaultValue, order, names, doc, otherProps) ==
  IF name = Undefined THEN PRet(Undefined, names, "Error")
  ELSE IF ~isString(name) THEN PRet(Undefined, names, "Error")
  ELSE IF order # Undefined /\ ~(isString(order) /\ order.cs \in VALID_FIELD_SORT_ORDERS)
  THEN PRet(Undefined, names, "Error")
  ELSE Bind(typeSchema(type, names), LAMBDA t :
         IF t.err # "none" THEN t
         ELSE PRet([props |-> Bind(otherProps \o <<P("type", Undefined), P("name", name)>>,
                             LAMBDA p0 : Bind(IF hasDefault THEN SetProp(p0, Units("default"), defaultValue) ELSE p0,
                             LAMBDA p1 : Bind(IF order # Undefined THEN SetProp(p1, Units("order"), order) ELSE p1,
                             LAMBDA p2 : IF doc # Undefined THEN SetProp(p2, Units("doc"), doc) ELSE p2))),
                    type |-> t.val,
                    name |-> name,
                    hasDefault |-> hasDefault],
                   t.names, "none"))

\* RecordSchema.makeFieldObjects, from the j-th element of fieldData on
makeFieldObjects(fieldData, j, names, fieldObjects) ==
  IF j > Len(fieldData) THEN PRet(fieldObjects, names, "none")
  ELSE IF ~InstanceOfObject(fieldData[j]) THEN PRet(Undefined, names, "Error")
  ELSE Bind(newField(Prop(fieldData[j], "type"), Prop(fieldData[j], "name"),
                     HasKey(fieldData[j], Units("default")), Prop(fieldData[j], "default"),
                     Prop(fieldData[j], "order"), names, Prop(fieldData[j], "doc"),
                     getOtherProps(ObjectEntries(fieldData[j]), FIELD_RESERVED_PROPS)),
            LAMBDA f :
              IF f.err # "none" THEN f
              ELSE IF \E i \in 1..Len(fieldObjects) : fieldObjects[i].name = f.val.name
              THEN PRet(Undefined, f.names, "Error")
              ELSE makeFieldObjects(fieldData, j + 1, f.names, Append(fieldObjects, f.val)))

\* new RecordSchema(name, namespace, fields, names, schemaType, doc, otherProps, logicalType)
newRecordSchema(name, namespace, fields, names, schemaType, doc, otherProps, logicalType) ==
  IF fields = Undefined THEN PRet(Undefined, names, "Error")
  ELSE IF fields.k # "array" THEN PRet(Undefined, names, "Error")
  ELSE IF schemaType = "request" THEN PRet(Undefined, names, "Error")
  ELSE Bind(newNamedSchema(schemaType, name, namespace, names, otherProps, logicalType),
       LAMBDA n :
         IF n.err # "none" THEN n
         ELSE Bind(IF schemaType = "record"
                   THEN [n.names EXCEPT !.defaultNamespace =
                           getSpace(Name(name, namespace, n.names.defaultNamespace))]
                   ELSE n.names,
              LAMBDA inner : Bind(makeFieldObjects(fields.xs, 1, inner, <<>>),
              LAMBDA fs :
                IF fs.err # "none" THEN fs
                ELSE PRet([type |-> schemaType,
                           props |-> setPropIfDefined(setProp(n.val, "fields", Undefined), "doc", doc).props,
                           logicalType |-> logicalType,
                           fullname |-> n.val.fullname,
                           fields |-> fs.val],
                          IF schemaType = "record"
                          THEN [fs.names EXCEPT !.defaultNamespace = names.defaultNamespace]
                          ELSE fs.names,
                          "none"))))

\* the loop of UnionSchema.constructor, from the j-th element of schemas on
schemaObjects(schemas, j, names, objects) ==
  IF j > Len(schemas) THEN PRet(objects, names, "none")
  ELSE Bind(typeSchema(schemas[j], names), LAMBDA newSchema :
         IF newSchema.err # "none" THEN newSchema
         ELSE IF /\ newSchema.val.type \in VALID_TYPES
                 /\ newSchema.val.type \notin NAMED_TYPES
                 /\ \E i \in 1..Len(objects) : objects[i].type = newSchema.val.type
         THEN PRet(Undefined, newSchema.names, "Error")
         ELSE IF newSchema.val.type = "union" THEN PRet(Undefined, newSchema.names, "Error")
         ELSE schemaObjects(schemas, j + 1, newSchema.names, Append(objects, newSchema.val)))

\* new UnionSchema(schemas, names, logicalType): the base constructor is
\* given logicalType where it takes otherProps.  class is the constructor
\* that was called, UnionSchema or ErrorUnionSchema
newUnionSchema(class, schemas, names, logicalType) ==
  IF schemas.k # "array" THEN PRet(Undefined, names, "Error")
  ELSE Bind(schemaObjects(schemas.xs, 1, names, <<>>), LAMBDA s :
         IF s.err # "none" THEN s
         ELSE PRet([type |-> "union",
                    class |-> class,
                    props |-> Schema("union", Spread(logicalType), Undefined).props,
                    logicalType |-> Undefined,
                    schemas |-> s.val],
                   s.names, "none"))

\* ['string'].concat(schemas): an array argument is spread, any other value
\* is appended as one element
Concat(xs, v) == IF v.k = "array" THEN Arr(xs \o v.xs) ELSE Arr(Append(xs, v))

\* new ErrorUnionSchema(schemas, names, logicalType)
newErrorUnionSchema(schemas, names, logicalType) ==
  newUnionSchema("ErrorUnionSchema", Concat(<<JStr("string")>>, schemas), names, logicalType)

\* new ArraySchema(items, names, otherProps, logicalType)
newArraySchema(items, names, otherProps, logicalType) ==
  Bind(typeSchema(items, names), LAMBDA itemsSchema :
    IF itemsSchema.err # "none" THEN itemsSchema
    ELSE PRet([type |-> "array",
               props |-> Append(Schema("array", otherProps, logicalType).props, P("items", Undefined)),
               logicalType |-> logicalType,
               items |-> itemsSchema.val],
              itemsSchema.names, "none"))

\* new MapSchema(values, names, otherProps, logicalType)
newMapSchema(values, names, otherProps, logicalType) ==
  Bind(typeSchema(values, names), LAMBDA valuesSchema :
    IF valuesSchema.err # "none" THEN valuesSchema
    ELSE PRet([type |-> "map",
               props |-> Append(Schema("map", otherProps, logicalType).props, P("values", Undefined)),
               logicalType |-> logicalType,
               values |-> valuesSchema.val],
              valuesSchema.names, "none"))

\* the branch of makeAvscObject for a JSON object whose type is a named type;
\* line 47 keeps the namespace of the JSON only when it is undefined, and
\* takes the registry's default namespace when the JSON states one
makeNamedObject(type, jsonData, names, otherProps, logicalType) ==
  Bind(IF Prop(jsonData, "namespace") = Undefined
       THEN Prop(jsonData, "namespace") ELSE names.defaultNamespace,
  LAMBDA namespace :
    IF type = "fixed"
    THEN newFixedSchema(Prop(jsonData, "name"), namespace, Prop(jsonData, "size"),
                        names, otherProps, logicalType)
    ELSE IF type = "enum"
    THEN newEnumSchema(Prop(jsonData, "name"), namespace, Prop(jsonData, "symbols"),
                       names, Prop(jsonData, "doc"), otherProps, logicalType)
    ELSE newRecordSchema(Prop(jsonData, "name"), namespace, Prop(jsonData, "fields"),
                         names, type, Prop(jsonData, "doc"), otherProps, logicalType))

\* the branch of makeAvscObject for a JSON object
makeObject(jsonData, names, otherProps, logicalType) ==
  Bind(Prop(jsonData, "type"), LAMBDA type :
    IF TypeIn(type, PRIMITIVE_TYPES) # ""
    THEN PRet(newPrimitiveSchema(TypeIn(type, PRIMITIVE_TYPES), otherProps, logicalType),
              names, "none")
    ELSE IF TypeIn(type, NAMED_TYPES) # ""
    THEN makeNamedObject(TypeIn(type, NAMED_TYPES), jsonData, names, otherProps, logicalType)
    ELSE IF TypeIn(type, VALID_TYPES) = "array"
    THEN newArraySchema(Prop(jsonData, "items"), names, otherProps, logicalType)
    ELSE IF TypeIn(type, VALID_TYPES) = "map"
    THEN newMapSchema(Prop(jsonData, "values"), names, otherProps, logicalType)
    ELSE IF TypeIn(type, VALID_TYPES) = "error_union"
    THEN newErrorUnionSchema(Prop(jsonData, "declared_errors"), names, logicalType)
    ELSE PRet(Undefined, names, "Error"))

\* makeAvscObject(jsonData, names)
makeAvscObject(jsonData, names) ==
  IF jsonData.k = "array" THEN newUnionSchema("UnionSchema", jsonData, names, Undefined)
  ELSE IF InstanceOfObject(jsonData)
  THEN makeObject(jsonData, names,
                  getOtherProps(ObjectEntries(jsonData), SCHEMA_RESERVED_PROPS),
                  Prop(jsonData, "logicalType"))
  ELSE IF TypeIn(jsonData, PRIMITIVE_TYPES) # ""
  THEN PRet(newPrimitiveSchema(TypeIn(jsonData, PRIMITIVE_TYPES), <<>>, Undefined), names, "none")
  ELSE PRet(Undefined, names, "Error")

\* ------------------------------------------------------- schemas to JSON
\* a JSON text: what JSON.parse makes of it, Undefined if it is not JSON
Text(json) == [k |-> "text", json |-> json]

\* the value JSON.stringify writes for v: a property whose value is
\* undefined is left out, an undefined array element is written as null
RECURSIVE Written(_)
Written(v) ==
  CASE v.k = "array" ->
         Arr([j \in 1..Len(v.xs) |-> IF v.xs[j] = Undefined THEN Null ELSE Written(v.xs[j])])
    [] v.k = "object" ->
         Bind(SelectSeq(v.es, LAMBDA e : e.val # Undefined), LAMBDA es :
           Obj([j \in 1..Len(es) |-> Entry(es[j].key, Written(es[j].val))]))
    [] OTHER -> v

\* JSON.stringify(v) for a defined v
JSONstringify(v) == Text(Written(v))

\* JSON.parse(text): [val, err]
JSONparse(text) ==
  IF text.k = "text" /\ text.json # Undefined
  THEN [val |-> text.json, err |-> "none"]
  ELSE [val |-> Undefined, err |-> "SyntaxError"]

\* the named schema of the tree under schema whose fullname is key
RECURSIVE FindNamed(_, _)
FindNamed(schema, key) ==
  IF schema.type \in NAMED_TYPES /\ schema.fullname = key THEN schema
  ELSE Bind(CASE schema.type \in {"record", "error"} ->
                   { FindNamed(schema.fields[j].type, key) : j \in 1..Len(schema.fields) }
              [] schema.type = "union" ->
                   { FindNamed(schema.schemas[j], key) : j \in 1..Len(schema.schemas) }
              [] schema.type = "array" -> { FindNamed(schema.items, key) }
              [] schema.type = "map" -> { FindNamed(schema.values, key) }
              [] OTHER -> {},
            LAMBDA found : IF found \ {Undefined} = {} THEN Undefined
                           ELSE CHOOSE n \in found \ {Undefined} : TRUE)

\* the schema object a use of a name is, in the tree of root
deref(schema, root) ==
  IF schema.type = "$ref" THEN FindNamed(root, schema.key) ELSE schema

\* NamedSchema.nameRef(names): this.namespace is the namespace property;
\* names.default_namespace is not a property of Names (defaultNamespace is)
nameRef(schema, names) ==
  IF GetProp(Obj(schema.props), Units("namespace")) = Undefined
  THEN GetProp(Obj(schema.props), Units("name"))
  ELSE Str(schema.fullname)

\* result of toJson: the JSON value and the names after the call
JRet(json, names) == [json |-> json, names |-> names]

\* names.names[this.fullname] = this
bindName(names, schema) ==
  [names EXCEPT !.names = SetProp(@, schema.fullname, [type |-> schema.type])]

RECURSIVE toJson(_, _, _)
RECURSIVE fieldsToJson(_, _, _, _, _)
RECURSIVE schemasToJson(_, _, _, _, _, _)

\* this.fields.map(f => f.toJson(names)), from the j-th field on
fieldsToJson(fields, j, names, root, toDump) ==
  IF j > Len(fields) THEN JRet(Arr(toDump), names)
  ELSE Bind(toJson(fields[j].type, names, root), LAMBDA t :
         fieldsToJson(fields, j + 1, t.names, root,
                      Append(toDump, Obj(SetProp(fields[j].props, Units("type"), t.json)))))

\* the loop of UnionSchema.toJson, and of ErrorUnionSchema.toJson, which
\* leaves out the schemas of type string
schemasToJson(schemas, j, names, root, toDump, class) ==
  IF j > Len(schemas) THEN JRet(Arr(toDump), names)
  ELSE IF class = "ErrorUnionSchema" /\ schemas[j].type = "string"
  THEN schemasToJson(schemas, j + 1, names, root, toDump, class)
  ELSE Bind(toJson(schemas[j], names, root), LAMBDA t :
         schemasToJson(schemas, j + 1, t.names, root, Append(toDump, t.json), class))

\* schema.toJson(names), by the class of the schema
toJson(schema, names, root) ==
  CASE schema.type = "$ref" -> toJson(deref(schema, root), names, root)
    [] schema.type \in PRIMITIVE_TYPES ->
         JRet(IF Len(schema.props) = 1 THEN Str(schema.fullname) ELSE Obj(schema.props), names)
    [] schema.type = "fixed" ->
         IF hasOwnName(names, schema.fullname) THEN JRet(nameRef(schema, names), names)
         ELSE JRet(Obj(pruneNamespace(names, schema.props)), bindName(names, schema))
    [] schema.type = "enum" ->
         IF hasOwnName(names, schema.fullname) \/ schema.fullname \in ObjectPrototypeNames
         THEN JRet(nameRef(schema, names), names)
         ELSE JRet(Obj(pruneNamespace(names, schema.props)), bindName(names, schema))
    [] schema.type \in {"record", "error"} ->
         IF hasOwnName(names, schema.fullname) THEN JRet(nameRef(schema, names), names)
         ELSE Bind(fieldsToJson(schema.fields, 1, bindName(names, schema), root, <<>>),
              LAMBDA fs : JRet(Obj(SetProp(pruneNamespace(names, schema.props),
                                           Units("fields"), fs.json)),
                               fs.names))
    [] schema.type = "union" ->
         schemasToJson(schema.schemas, 1, names, root, <<>>, schema.class)
    [] schema.type = "array" ->
         Bind(toJson(schema.items, names, root), LAMBDA t :
           JRet(Obj(SetProp(schema.props, Units("items"), t.json)), t.names))
    [] schema.type = "map" ->
         Bind(toJson(schema.values, names, root), LAMBDA t :
           JRet(Obj(SetProp(schema.props, Units("values"), t.json)), t.names))

\* schema.toString(): toJson is called without names and makes its own
toString(schema, root) == JSONstringify(toJson(schema, Names(Undefined), root).json)

\* utils.isEqual (lodash.isequal) on JSON values
isEqual(a, b) == DeepEqual(a, b)

\* this.equals(that), by the class of this; JSON.parse(this) parses
\* this.toString()
equals(this, rootOfThis, that, rootOfThat) ==
  IF deref(this, rootOfThis).type \in PRIMITIVE_TYPES \cup {"fixed", "enum"}
  THEN isEqual(Obj(deref(this, rootOfThis).props), Obj(deref(that, rootOfThat).props))
  ELSE isEqual(JSONparse(toString(this, rootOfThis)).val,
               JSONparse(toString(that, rootOfThat)).val)

\* parse(jsonString): [val, names, err]; names is the registry the call made
parse(jsonString) ==
  IF InstanceOfObject(jsonString) THEN makeAvscObject(jsonString, Names(Undefined))
  ELSE Bind(JSONparse(jsonString), LAMBDA jsonData :
         IF jsonData.err # "none" THEN PRet(Undefined, Names(Undefined), "Error")
         ELSE makeAvscObject(jsonData.val, Names(Undefined)))

\* ------------------------------------------------------- schema examples
\* JSON values of schema texts
JFixed(name, size) ==
  Obj(<<P("type", JStr("fixed")), P("name", JStr(name)), P("size", Num(size))>>)

JEnum(name, symbols) ==
  Obj(<<P("type", JStr("enum")), P("name", JStr(name)), P("symbols", symbols)>>)

JField(name, type) == Obj(<<P("name", JStr(name)), P("type", type)>>)

JRecord(type, name, fields) ==
  Obj(<<P("type", JStr(type)), P("name", JStr(name)), P("fields", Arr(fields))>>)

JArray(items) == Obj(<<P("type", JStr("array")), P("items", items)>>)

JMap(values) == Obj(<<P("type", JStr("map")), P("values", values)>>)

\* the JSON object with one more property
With(obj, key, val) == Obj(Append(obj.es, P(key, val)))

\* test/schema.js PRIMITIVE_EXAMPLES
PRIMITIVE_EXAMPLES ==
  {JStr("true"), Bool(TRUE), Obj(<<P("doc", JStr("X"))>>), Obj(<<P("type", JStr("panther"))>>)}
  \cup { JStr(t) : t \in PRIMITIVE_TYPES }
  \cup { Obj(<<P("type", JStr(t))>>) : t \in PRIMITIVE_TYPES }

\* test/schema.js FIXED_EXAMPLES
FIXED_EXAMPLES ==
  {JFixed("X", 1),
   With(JFixed("X", 1), "namespace", JStr("o.a.h")),
   Obj(<<P("type", JStr("fixed")), P("name", JStr("X"))>>),
   Obj(<<P("type", JStr("fixed")), P("size", Num(3))>>)}

\* test/schema.js ENUM_EXAMPLES
ENUM_EXAMPLES ==
  {JEnum("X", Arr(<<JStr("A"), JStr("B")>>)),
   JEnum("X", JStr("A")),
   Obj(<<P("type", JStr("enum")), P("name", Arr(<<Num(0), Num(1)>>)),
         P("symbols", Arr(<<JStr("A"), JStr("B")>>))>>),
   Obj(<<P("type", JStr("enum")), P("symbols", Arr(<<JStr("A"), JStr("B")>>))>>),
   JEnum("X", Arr(<<JStr("A"), JStr("A")>>))}

\* test/schema.js ARRAY_EXAMPLES and MAP_EXAMPLES
ARRAY_EXAMPLES ==
  {JArray(JStr("long")), JArray(JEnum("X", Arr(<<JStr("A"), JStr("B")>>)))}

MAP_EXAMPLES ==
  {JMap(JStr("long")), JMap(JEnum("X", Arr(<<JStr("A"), JStr("B")>>)))}

\* test/schema.js UNION_EXAMPLES
UNION_EXAMPLES ==
  {Arr(<<JStr("string"), JStr("null"), JStr("long")>>),
   Arr(<<JStr("null"), JStr("null")>>),
   Arr(<<JStr("long"), With(Obj(<<P("type", JStr("long"))>>), "cp", JStr("X"))>>),
   Arr(<<JArray(JStr("long")), JArray(JStr("string"))>>),
   Arr(<<JStr("null"), Arr(<<JStr("long")>>)>>)}

\* test/schema.js RECORD_EXAMPLES: plain, recursive, erroneous, and the
\* error and error_union types
RECORD_EXAMPLES ==
  {JRecord("record", "X", <<JField("f", JStr("long"))>>),
   JRecord("record", "X", <<JField("f", JStr("X"))>>),
   JRecord("record", "X",
     <<JField("f", Arr(<<JStr("null"), JStr("string"),
         JRecord("record", "Y", <<JField("g", JStr("X")), JField("h", JStr("Y"))>>)>>))>>),
   JRecord("record", "X", <<JField("f", JRecord("record", "Y", <<JField("g", JStr("X"))>>))>>),
   With(JRecord("record", "X", <<With(JField("f", JStr("long")), "order", JStr("ascending"))>>),
        "doc", JStr("Z")),
   JRecord("record", "X", <<With(JField("f", JStr("long")), "default", Num(1))>>),
   JRecord("error", "X", <<JField("f", JStr("long"))>>),
   JRecord("record", "X", <<JField("f", JStr("long")), JField("f", JStr("int"))>>),
   JRecord("record", "X", <<JField("f", JStr("Y"))>>),
   JRecord("record", "X", <<With(JField("f", JStr("long")), "order", JStr("X"))>>),
   JRecord("request", "X", <<JField("f", JStr("long"))>>),
   Obj(<<P("type", JStr("record")), P("name", JStr("X"))>>),
   Obj(<<P("type", JStr("record")), P("name", JStr("X")), P("fields", JStr("long"))>>),
   JRecord("record", "X", <<JStr("long")>>),
   Obj(<<P("type", JStr("error_union")),
         P("declared_errors", Arr(<<JRecord("error", "X", <<JField("f", JStr("long"))>>)>>))>>),
   Obj(<<P("type", JStr("error_union")), P("declared_errors", Arr(<<JStr("string")>>))>>)}

\* names with namespaces: a namespace stated beside the name, dotted names,
\* and uses of a name from inside another namespace
NAMESPACE_EXAMPLES ==
  {With(JEnum("N", Arr(<<JStr("A")>>)), "namespace", JStr("s")),
   With(JRecord("record", "N", <<JField("f", JStr("long"))>>), "namespace", JStr("s")),
   With(JRecord("error", "N", <<JField("f", JStr("long"))>>), "namespace", JStr("s")),
   With(JFixed("N", 1), "namespace", JStr("s")),
   JRecord("record", "a.X", <<JField("f", With(JFixed("N", 1), "namespace", JStr("s")))>>),
   JRecord("record", "a.X", <<JField("f", JFixed("N", 1)), JField("g", JStr("N"))>>),
   JRecord("record", "a.X", <<JField("f", JFixed("N", 1)), JField("g", JStr("a.N"))>>),
   JRecord("record", "a.X",
     <<JField("f", JFixed("N", 1)),
       JField("g", JRecord("record", "b.Y", <<JField("h", JStr("a.N"))>>))>>),
   JRecord("record", "a.X",
     <<JField("f", JFixed("N", 1)),
       JField("g", JRecord("record", "b.Y",
         <<JField("h", JStr("a.N")),
           JField("f", JRecord("record", "c.Z", <<JField("g", JStr("a.N"))>>))>>))>>),
   JRecord("record", "a.b.X", <<JField("f", JFixed("N", 1)), JField("g", JStr("a.N"))>>),
   Arr(<<JRecord("record", "a.X", <<JField("f", JFixed("N", 1))>>), JStr("a.N")>>),
   JArray(JFixed("int", 1)),
   JMap(JFixed("map", 1))}

\* names declared and used inside the fields of a record or error whose
\* name has a namespace, and names declared after such a record
SCOPE_EXAMPLES ==
  {JRecord("error", "a.X", <<JField("f", JFixed("N", 1)), JField("g", JStr("N"))>>),
   JRecord("record", "a.b.X", <<JField("f", JFixed("N", 1)), JField("g", JStr("N"))>>),
   Arr(<<JRecord("record", "a.X", <<JField("f", JFixed("N", 1))>>), JFixed("M", 1)>>),
   JRecord("record", "a.X",
     <<JField("f", JRecord("record", "b.Y", <<JField("h", JFixed("N", 1))>>)),
       JField("g", JFixed("M", 1)), JField("h", JStr("M"))>>)}

\* the schemas the texts are written from
SchemaExamples ==
  PRIMITIVE_EXAMPLES \cup FIXED_EXAMPLES \cup ENUM_EXAMPLES \cup ARRAY_EXAMPLES
  \cup MAP_EXAMPLES \cup UNION_EXAMPLES \cup RECORD_EXAMPLES \cup NAMESPACE_EXAMPLES
  \cup SCOPE_EXAMPLES

\* a text that is not JSON, as the file name of test/schema.js
NotJson == [k |-> "text", json |-> Undefined]

\* what parse is called with: a text, or an object parsed beforehand
SchemaInputs ==
  { JSONstringify(e) : e \in SchemaExamples } \cup {NotJson}
  \cup FIXED_EXAMPLES \cup UNION_EXAMPLES

\* ------------------------------------------------------------ parse and emit
\* writersSchema holds the schema parse returned and readersSchema the one
\* parsed again from the text in result; rpos is the field whose type was
\* taken out (0 when the text is of the whole schema)
InitSchema ==
  /\ options = NoOptions
  /\ datum \in SchemaInputs
  /\ writersSchema = Undefined
  /\ readersSchema = Undefined
  /\ buf = <<>>
  /\ pos = 0
  /\ rpos = 0
  /\ result = [op |-> "none", err |-> "none", val |-> Undefined]
  /\ pc = "start"

\* schema.parse(datum)
Parse ==
  /\ pc = "start"
  /\ \E r \in {parse(datum)} :
       /\ writersSchema' = r.val
       /\ result' = [op |-> "parse", err |-> r.err, val |-> Obj(r.names.names)]
  /\ pc' = IF writersSchema' = Undefined THEN "done" ELSE "parsed"
  /\ UNCHANGED <<options, readersSchema, datum, buf, pos, rpos>>

\* writersSchema.toString()
Emit ==
  /\ pc = "parsed"
  /\ result' = [op |-> "toString", err |-> "none", val |-> toString(writersSchema, writersSchema)]
  /\ rpos' = 0
  /\ pc' = "text"
  /\ UNCHANGED <<options, writersSchema, readersSchema, datum, buf, pos>>

\* writersSchema.fields[j].type.toString(), test 'Correct recursive extraction'
Extract ==
  /\ pc = "parsed"
  /\ writersSchema.type \in {"record", "error"}
  /\ \E j \in 1..Len(writersSchema.fields) :
       /\ result' = [op |-> "toString", err |-> "none",
                     val |-> toString(writersSchema.fields[j].type, writersSchema)]
       /\ rpos' = j
  /\ pc' = "text"
  /\ UNCHANGED <<options, writersSchema, readersSchema, datum, buf, pos>>

\* the schema the text in result was written from
Emitted == IF rpos = 0 THEN writersSchema ELSE writersSchema.fields[rpos].type

\* schema.parse of the text, and parsed.equals(the schema it was written from)
ParseAgain ==
  /\ pc = "text"
  /\ \E r \in {parse(result.val)} :
       /\ readersSchema' = r.val
       /\ result' = [op |-> "equals", err |-> r.err,
                     val |-> IF r.err # "none" THEN Undefined
                             ELSE Bool(equals(r.val, r.val, Emitted, writersSchema))]
  /\ pc' = "done"
  /\ UNCHANGED <<options, writersSchema, datum, buf, pos, rpos>>

NextSchema == Parse \/ Emit \/ Extract \/ ParseAgain

SpecSchema == InitSchema /\ [][NextSchema]_vars

\* ------------------------------------------------- logical types at work
\* the schema with logicalType set, as Schema.constructor sets it
WithLogicalType(schema, logicalType) ==
  [f \in DOMAIN schema \cup {"logicalType"} |->
     IF f = "logicalType" THEN JStr(logicalType) ELSE schema[f]]

\* test/io.js: schema.parse('{"type": "string", "logicalType": "hello"}'),
\* the same with logical types that are not registered, and schemas with
\* the logical type inside
LogicalSchemas ==
  {WithLogicalType(StringS, "hello"),
   WithLogicalType(StringS, "date"),
   WithLogicalType(StringS, "toString"),
   StringS,
   ArraySchema(WithLogicalType(StringS, "hello")),
   RecordSchema("record", "Test", <<NoDefault(Units("f"), WithLogicalType(StringS, "hello"))>>),
   UnionSchema(<<NullS, WithLogicalType(StringS, "hello")>>)}

\* the options of test/io.js, none, and logicalTypes with no object for hello
LogicalOptions ==
  {NoOptions,
   [logicalTypes |-> Obj(<<>>)],
   [logicalTypes |-> Obj(<<Entry(Units("hello"), Bool(TRUE))>>)],
   [logicalTypes |-> Obj(<<Entry(Units("hello"), AddH)>>)],
   [logicalTypes |-> Obj(<<Entry(Units("hello"), IntAsString(FALSE))>>)],
   [logicalTypes |-> Obj(<<Entry(Units("hello"), IntAsString(TRUE))>>)],
   [logicalTypes |-> Obj(<<Entry(Units("hello"),
                            [IntAsString(FALSE) EXCEPT !.validateBeforeFromValue = "isNumber"])>>)],
   [logicalTypes |-> Obj(<<Entry(Units("hello"),
                            [AddH EXCEPT !.delay = TRUE])>>)]}

LogicalData ==
  {JStr("Hello"), JStr("1"), JStr("12"), Num(1), Num(12), Num(-3), Null,
   Arr(<<JStr("Hello"), JStr("1")>>), Arr(<<Num(1), Num(12)>>),
   Obj(<<Entry(Units("f"), JStr("Hello"))>>), Obj(<<Entry(Units("f"), Num(1))>>)}

\* buffers that hold a string written elsewhere
LogicalBytes ==
  { writeString(Tap(Zeros(BufLen), 0), JStr(t)).tap.buf : t \in {"Hello", "1", "-3"} }

\* a writer and a reader with the same options on an empty buffer, or a
\* reader alone on a buffer written elsewhere
InitLogical ==
  /\ options \in LogicalOptions
  /\ writersSchema \in LogicalSchemas
  /\ readersSchema = writersSchema
  /\ \/ datum \in LogicalData /\ buf = Zeros(BufLen) /\ pc = "start"
     \/ datum = Undefined /\ buf \in LogicalBytes /\ pc = "loaded"
  /\ pos = 0
  /\ rpos = 0
  /\ result = NoResult

NextLogical == Write \/ SettleWrite \/ Read \/ SettleRead

SpecLogical == InitLogical /\ [][NextLogical]_vars

\* ------------------------------------------------- logical types that fail
HookNames == {"toValue", "fromValue", "validateBeforeToValue", "validateBeforeFromValue"}

\* options whose logical type hello is the one of test 'Logical string add
\* "H" at end when writing' with one of its functions replaced
WithHook(hook, function) ==
  [logicalTypes |-> Obj(<<Entry(Units("hello"), [AddH EXCEPT ![hook] = function])>>)]

\* one function throws or returns a rejected promise, or a validation
\* answers through a promise
HookOptions ==
  { WithHook(hook, function) : hook \in HookNames, function \in {"throwE", "rejectE"} }
  \cup { WithHook(hook, function) : hook \in {"validateBeforeToValue", "validateBeforeFromValue"},
                                    function \in {"laterFalse", "laterTrue"} }
  \cup { [logicalTypes |-> Obj(<<Entry(Units("hello"), AddH)>>)],
         [logicalTypes |-> Obj(<<Entry(Units("hello"), [AddH EXCEPT !.delay = TRUE])>>)] }

HookSchemas ==
  {WithLogicalType(StringS, "hello"),
   StringS,
   ArraySchema(WithLogicalType(StringS, "hello")),
   RecordSchema("record", "Test", <<NoDefault(Units("f"), WithLogicalType(StringS, "hello"))>>)}

HookData ==
  {JStr("Hello"), JStr("H"), Num(1),
   Arr(<<JStr("Hello"), JStr("1")>>), Obj(<<Entry(Units("f"), JStr("Hello"))>>)}

InitHooks ==
  /\ options \in HookOptions
  /\ writersSchema \in HookSchemas
  /\ readersSchema = writersSchema
  /\ \/ datum \in HookData /\ buf = Zeros(BufLen) /\ pc = "start"
     \/ datum = Undefined /\ buf \in LogicalBytes /\ pc = "loaded"
  /\ pos = 0
  /\ rpos = 0
  /\ result = NoResult

SpecHooks == InitHooks /\ [][NextLogical]_vars

\* ------------------------------------------------------- the cursor at work
\* the length of the longest buffer a cursor is put on
TapLen == 4

\* bytes of the buffers: varints of 0, -1, -2 and a continuation byte
TapBytes == {0, 1, 3, 128}

\* new Tap(buf, pos) on any buffer, at any position that is not negative
InitTap ==
  /\ options = NoOptions
  /\ writersSchema = NullS
  /\ readersSchema = NullS
  /\ datum = Undefined
  /\ buf \in UNION { [1..n -> TapBytes] : n \in 0..TapLen }
  /\ pos \in 0..(Len(buf) + 1)
  /\ rpos = 0
  /\ result = NoResult
  /\ pc = "tap"

\* a call of a read or skip method with the argument arg on a cursor that
\* is inside its buffer: r is what the method returns
TapRead(op, arg, r) ==
  /\ pc \in {"tap", "read"}
  /\ pos >= 0 /\ pos <= Len(buf)
  /\ pos' = r.tap.pos
  /\ datum' = arg
  /\ result' = [op |-> op, err |-> r.err, val |-> r.val]
  /\ pc' = "read"
  /\ UNCHANGED <<options, writersSchema, readersSchema, buf, rpos>>

\* the sizes readFixed and skipFixed are called with
FixedLens == {-1, 0, 1, 2}

ReadBoolean == TapRead("readBoolean", Undefined, readBoolean(Tap(buf, pos)))

ReadLong == TapRead("readLong", Undefined, readLong(Tap(buf, pos)))

ReadFloat == TapRead("readFloat", Undefined, readFloat(Tap(buf, pos)))

ReadDouble == TapRead("readDouble", Undefined, readDouble(Tap(buf, pos)))

ReadFixed == \E len \in FixedLens : TapRead("readFixed", Num(len), readFixed(Tap(buf, pos), len))

ReadBytes == TapRead("readBytes", Undefined, readBytes(Tap(buf, pos)))

ReadString == TapRead("readString", Undefined, readString(Tap(buf, pos)))

SkipBoolean == TapRead("skipBoolean", Undefined, Ret(skipBoolean(Tap(buf, pos)), Undefined, "none"))

SkipLong == TapRead("skipLong", Undefined, Ret(skipLong(Tap(buf, pos)), Undefined, "none"))

SkipFloat == TapRead("skipFloat", Undefined, Ret(skipFloat(Tap(buf, pos)), Undefined, "none"))

SkipDouble == TapRead("skipDouble", Undefined, Ret(skipDouble(Tap(buf, pos)), Undefined, "none"))

SkipFixed ==
  \E len \in FixedLens :
    TapRead("skipFixed", Num(len), Ret(skipFixed(Tap(buf, pos), len), Undefined, "none"))

SkipBytes == TapRead("skipBytes", Undefined, Ret(skipBytes(Tap(buf, pos)), Undefined, "none"))

SkipString == TapRead("skipString", Undefined, Ret(skipString(Tap(buf, pos)), Undefined, "none"))

\* a call of a write method with the argument arg on a new cursor: r is
\* what the method returns
TapWrite(op, arg, r) ==
  /\ pc = "tap"
  /\ buf' = r.tap.buf
  /\ pos' = r.tap.pos
  /\ datum' = arg
  /\ result' = [op |-> op, err |-> r.err, val |-> Undefined]
  /\ pc' = "wrote"
  /\ UNCHANGED <<options, writersSchema, readersSchema, rpos>>

\* the arguments of the write methods
TapLongs == {0, 1, -1, 63, 64, -64, -65, 8191, 8192, 1073741823, 1073741824, -1073741825}

TapBuffers == {Buf(<<>>), Buf(<<7>>), Buf(<<7, 8>>), Buf(<<7, 8, 9, 10, 11>>)}

TapStrings == {Str(<<>>), Str(<<97>>), Str(<<97, 98>>), Str(<<233>>), Str(<<8364, 97>>),
               Str(<<55357, 56832>>)}

WriteBoolean ==
  \E b \in BOOLEAN :
    TapWrite("writeBoolean", Bool(b), Ret(writeBoolean(Tap(buf, pos), Bool(b)), Undefined, "none"))

WriteLong == \E n \in TapLongs : TapWrite("writeLong", Num(n), writeLong(Tap(buf, pos), Num(n)))

WriteFloat ==
  \E n \in {0, 1, -2} :
    TapWrite("writeFloat", Num(n), Ret(writeFloat(Tap(buf, pos), Num(n)), Undefined, "none"))

WriteDouble ==
  \E n \in {0, 1, -2} :
    TapWrite("writeDouble", Num(n), Ret(writeDouble(Tap(buf, pos), Num(n)), Undefined, "none"))

WriteFixed ==
  \E b \in TapBuffers :
    TapWrite("writeFixed", b, Ret(writeFixed(Tap(buf, pos), b, Len(b.bs)), Undefined, "none"))

WriteBytes == \E b \in TapBuffers : TapWrite("writeBytes", b, writeBytes(Tap(buf, pos), b))

WriteString == \E s \in TapStrings : TapWrite("writeString", s, writeString(Tap(buf, pos), s))

\* schemas and data for DatumWriter.write on a buffer that may be too small
TapData ==
  { <<StringS, Str(<<97, 98, 99>>)>>, <<LongS, Num(8192)>>, <<BooleanS, Bool(TRUE)>>,
    <<DoubleS, Num(1)>>, <<BytesS, Buf(<<7, 8, 9>>)>>,
    <<ArraySchema(IntS), Arr(<<Num(1), Num(-65)>>)>>,
    <<MapSchema(StringS), Obj(<<Entry(sA, Str(<<97>>))>>)>>,
    <<EnumFooBar, Str(sBAR)>>,
    <<UnionSchema(<<NullS, StringS>>), Str(<<97, 98>>)>>,
    <<RecordTest, Obj(<<Entry(sF, Num(5))>>)>> }

\* new DatumWriter(schema).write(datum, tap)
WriteDatum ==
  /\ pc = "tap"
  /\ \E p \in TapData :
       \E w \in {write(p[1], p[2], Tap(buf, pos), NoOptions)} :
         /\ writersSchema' = p[1]
         /\ datum' = p[2]
         /\ buf' = w.tap.buf
         /\ pos' = w.tap.pos
         /\ result' = [op |-> "write", err |-> w.err, val |-> Undefined]
  /\ pc' = "wrote"
  /\ UNCHANGED <<options, readersSchema, rpos>>

NextTap ==
  \/ ReadBoolean \/ ReadLong \/ ReadFloat \/ ReadDouble \/ ReadFixed \/ ReadBytes \/ ReadString
  \/ SkipBoolean \/ SkipLong \/ SkipFloat \/ SkipDouble \/ SkipFixed \/ SkipBytes \/ SkipString
  \/ WriteBoolean \/ WriteLong \/ WriteFloat \/ WriteDouble \/ WriteFixed \/ WriteBytes
  \/ WriteString \/ WriteDatum

SpecTap == InitTap /\ [][NextTap]_vars

\* ---------------------------------------------------------------- skipping
\* test/io.js, checkSkipNumber: the known value written after the value to skip
VALUE_TO_READ == 6253

\* a writer on an empty buffer, or a reader of an array or map on bytes that
\* came from elsewhere
InitSkip ==
  /\ options = NoOptions
  /\ \/ /\ writersSchema \in RoundTripSchemas
        /\ datum \in Data
        /\ buf = Zeros(BufLen)
        /\ pc = "start"
     \/ /\ writersSchema \in {ArraySchema(IntS), MapSchema(IntS)}
        /\ datum = Undefined
        /\ buf \in [1..CraftLen -> CraftBytes]
        /\ pc = "loaded"
  /\ readersSchema = writersSchema
  /\ pos = 0
  /\ rpos = 0
  /\ result = NoResult

\* checkSkipNumber: await datumWriter.write(VALUE_TO_READ, tap) on the tap
\* that wrote the value to skip
WriteNext ==
  /\ pc = "written"
  /\ result.err = "none"
  /\ writersSchema.type \in {"int", "long"}
  /\ \E w \in {write(writersSchema, Num(VALUE_TO_READ), Tap(buf, pos), options)} :
       /\ buf' = w.tap.buf
       /\ pos' = w.tap.pos
       /\ result' = [op |-> "write", err |-> w.err, val |-> Undefined]
  /\ pc' = "second"
  /\ UNCHANGED <<options, writersSchema, readersSchema, datum, rpos>>

\* datumReader.skipData(writersSchema, new Tap(buffer)) on what was written,
\* or on the bytes from elsewhere
Skip ==
  /\ \/ pc \in {"written", "second"} /\ result.err = "none" /\ pos <= Len(buf)
     \/ pc = "loaded"
  /\ \E k \in {skipData(writersSchema, Tap(buf, 0))} :
       /\ rpos' = k.tap.pos
       /\ result' = [op |-> "skip", err |-> k.err, val |-> Undefined]
  /\ pc' = "skipped"
  /\ UNCHANGED <<options, writersSchema, readersSchema, datum, buf, pos>>

\* checkSkipNumber: datumReader.read(readTap) on the tap that skipped, when
\* the writer went on after the value skipped
ReadNext ==
  /\ pc = "skipped"
  /\ result.err = "none"
  /\ rpos < pos
  /\ \E r \in {read(writersSchema, readersSchema, Tap(buf, rpos), options)} :
       /\ rpos' = r.tap.pos
       /\ result' = [op |-> "read", err |-> r.err, val |-> r.val]
  /\ pc' = "done"
  /\ UNCHANGED <<options, writersSchema, readersSchema, datum, buf, pos>>

NextSkip == Write \/ WriteNext \/ Skip \/ ReadNext

SpecSkip == InitSkip /\ [][NextSkip]_vars

\* --------------------------------------- calls that share a schema, by steps
\* the length of the buffers of the calls
WalkLen == 16

\* one call of write, read or skipData with a cursor of its own: the next
\* part of the datum (i), the parts left in the block being read (left), the
\* promises of toValue / fromValue that no timer has settled yet (pending),
\* the parts read so far (acc), the part each cursor operation was made for
\* (log), and whether the other call was under way at one of its steps (met)
Task(kind, d, buffer) ==
  [kind |-> kind, d |-> d, first |-> buffer, tap |-> Tap(buffer, 0), i |-> 0, left |-> 0,
   pending |-> <<>>, acc |-> <<>>, val |-> Undefined, log |-> <<>>, err |-> "none",
   done |-> FALSE, met |-> FALSE]

\* the parts that writeRecord, writeArray and writeMap write one after the
\* other: how many, the schema of part j and part j of the datum
ElemCount(s, d) ==
  CASE s.type = "array" -> Len(d.xs)
    [] s.type = "map" -> Len(ObjectEntries(d))
    [] OTHER -> Len(s.fields)

ElemSchema(s, j) ==
  CASE s.type = "array" -> s.items
    [] s.type = "map" -> s.values
    [] OTHER -> s.fields[j].type

ElemDatum(s, d, j) ==
  CASE s.type = "array" -> d.xs[j]
    [] s.type = "map" -> ObjectEntries(d)[j].val
    [] OTHER -> GetProp(d, s.fields[j].name)

\* the call ends with an error
Fail(task, tap, err) == [task EXCEPT !.tap = tap, !.err = err, !.done = TRUE]

\* the sequence without its k-th element
Remove(seq, k) == SubSeq(seq, 1, k - 1) \o SubSeq(seq, k + 1, Len(seq))

\* "await this.writeData(...)" and "await this.readData(...)" in the loops:
\* the loop goes on when the promise it waits for is settled
MayStart(task) == task.pending = <<>>

\* DatumWriter.write up to the first part: validate, then the count that
\* writeArray and writeMap write before the parts of a datum that has some
writeBegin(task, s, opts) ==
  IF validateThrows(s, task.d, opts) THEN Fail(task, task.tap, "Error")
  ELSE IF ~validate(s, task.d, opts) THEN Fail(task, task.tap, createAvroTypeError(s))
  ELSE [task EXCEPT !.i = 1,
          !.tap = IF s.type \in {"array", "map"} /\ ElemCount(s, task.d) > 0
                  THEN writeLong(task.tap, Num(ElemCount(s, task.d))).tap ELSE @]

\* the switch of writeData for part j, once datumToWrite is there
writeLanded(task, s, j, datumToWrite, tap, opts) ==
  Bind(writeByType(Deref(ElemSchema(s, j)), datumToWrite, tap, opts), LAMBDA w :
    IF w.err # "none" THEN Fail(task, w.tap, w.err)
    ELSE [task EXCEPT !.tap = w.tap, !.log = Append(@, j)])

\* one turn of the loop of writeRecord, writeArray or writeMap up to the
\* await of writeData: the key of a map entry, then toValue of the part
writeElement(task, s, opts) ==
  Bind(task.i, LAMBDA j :
  Bind(IF s.type = "map"
       THEN writeString(task.tap, Str(ObjectEntries(task.d)[j].key)).tap
       ELSE task.tap, LAMBDA tap :
  Bind([task EXCEPT !.i = j + 1, !.tap = tap,
                    !.log = IF s.type = "map" THEN Append(@, j) ELSE @], LAMBDA next :
  Bind(toValue(Deref(ElemSchema(s, j)), ElemDatum(s, task.d, j), opts), LAMBDA v :
    IF v.err # "none" THEN Fail(next, tap, v.err)
    ELSE IF v.val.k = "promise"
    THEN [next EXCEPT !.pending = Append(@, [i |-> j, key |-> <<>>, p |-> v.val])]
    ELSE writeLanded(next, s, j, v.val, tap, opts)))))

\* the k-th pending promise of toValue is settled: writeData goes on
writeSettled(task, s, k, opts) ==
  Bind(task.pending[k], LAMBDA e :
  Bind([task EXCEPT !.pending = Remove(@, k)], LAMBDA next :
    IF Rejects(e.p) THEN Fail(next, task.tap, e.p.reason)
    ELSE writeLanded(next, s, e.i, Await(e.p), task.tap, opts)))

\* after the loop: tap.writeLong(0) of writeArray and writeMap
writeEnd(task, s) ==
  [task EXCEPT !.done = TRUE,
     !.tap = IF s.type \in {"array", "map"} THEN writeLong(task.tap, Num(0)).tap ELSE @]

\* blockCount = tap.readLong() of readArray and readMap, and what they do
\* with a negative count
RECURSIVE nextBlock(_, _)
nextBlock(task, s) ==
  Bind(readLong(task.tap), LAMBDA c :
    IF c.val.i = 0
    THEN [task EXCEPT !.tap = c.tap, !.left = 0, !.done = TRUE,
                      !.val = IF s.type = "array" THEN Arr(task.acc) ELSE Obj(task.acc)]
    ELSE IF c.val.i > 0 THEN [task EXCEPT !.tap = c.tap, !.left = c.val.i]
    ELSE IF s.type = "array" THEN [task EXCEPT !.tap = readLong(c.tap).tap, !.left = -c.val.i]
    ELSE Bind(readLong(c.tap), LAMBDA blockCount :
           IF blockCount.val.i > 0
           THEN [task EXCEPT !.tap = blockCount.tap, !.left = blockCount.val.i]
           ELSE nextBlock([task EXCEPT !.tap = blockCount.tap], s)))

\* DatumReader.read up to the first part
readBegin(task, s) ==
  IF ~matchSchemas(s, s) THEN Fail(task, task.tap, createSchemaResolutionError(s, s))
  ELSE IF s.type \in {"array", "map"} THEN nextBlock([task EXCEPT !.i = 1], s)
  ELSE IF Len(s.fields) = 0 THEN [task EXCEPT !.i = 1, !.done = TRUE, !.val = Obj(<<>>)]
  ELSE [task EXCEPT !.i = 1, !.left = Len(s.fields)]

\* the value of a part is there: readItems.push / readItems[key] = /
\* readRecord[field.name] =, and after the last part of a block the next
\* blockCount, after the last field the record
readLanded(task, s, key, v) ==
  Bind([task EXCEPT !.acc = IF s.type = "array" THEN Append(@, v) ELSE SetProp(@, key, v)],
       LAMBDA next :
    IF next.left > 0 THEN next
    ELSE IF s.type \in {"array", "map"} THEN nextBlock(next, s)
    ELSE [next EXCEPT !.done = TRUE, !.val = Obj(next.acc)])

\* one turn of the loop of readRecord, readArray or readMap up to the await
\* of readData: the key of a map entry, then the part, on which readData
\* ends by returning what fromValue returns
readElement(task, s, opts) ==
  Bind(task.i, LAMBDA j :
  Bind(IF s.type = "map" THEN readString(task.tap) ELSE Ret(task.tap, Undefined, "none"),
       LAMBDA key :
  Bind(CASE s.type = "map" -> PropertyKey(key.val)
         [] s.type = "array" -> <<>>
         [] OTHER -> s.fields[j].name, LAMBDA name :
  Bind(readData(ElemSchema(s, j), ElemSchema(s, j), key.tap, opts), LAMBDA v :
  Bind([task EXCEPT !.i = j + 1, !.left = @ - 1, !.tap = v.tap, !.log = Append(@, j)],
       LAMBDA next :
    IF v.err # "none" THEN Fail(next, v.tap, v.err)
    ELSE IF v.val.k = "promise"
    THEN [next EXCEPT !.pending = Append(@, [i |-> j, key |-> name, p |-> v.val])]
    ELSE readLanded(next, s, name, v.val))))))

\* the k-th pending promise of fromValue is settled: the loop goes on
readSettled(task, s, k) ==
  Bind(task.pending[k], LAMBDA e :
  Bind([task EXCEPT !.pending = Remove(@, k)], LAMBDA next :
    IF Rejects(e.p) THEN Fail(next, task.tap, e.p.reason)
    ELSE readLanded(next, s, e.key, Await(e.p))))

\* whether the call has begun and has not ended
Running(task) == task.i > 0 /\ ~task.done

\* both calls on the cursor of the one that took the step
Stepped_sharedCursor(tasks, t, next) ==
  [tasks EXCEPT ![t] = [next EXCEPT !.met = @ \/ Running(tasks[3 - t])],
                ![3 - t] = [@ EXCEPT !.tap = next.tap]]

\* the call with the step taken on the cursor it was given, next to the
\* other call
Stepped(tasks, t, next) ==
  [tasks EXCEPT ![t] = [next EXCEPT !.met = @ \/ Running(tasks[3 - t])]]

\* datumWriter.write(datum, tap) is called
WriteBegin ==
  /\ pc = "walk"
  /\ \E t \in 1..2 :
       /\ result.tasks[t].kind = "write" /\ result.tasks[t].i = 0 /\ ~result.tasks[t].done
       /\ result' = [result EXCEPT !.tasks =
                       Stepped(@, t, writeBegin(result.tasks[t], writersSchema, options))]
  /\ UNCHANGED <<options, writersSchema, readersSchema, datum, buf, pos, rpos, pc>>

\* the loop of the writer takes its next turn
WriteElement ==
  /\ pc = "walk"
  /\ \E t \in 1..2 :
       /\ result.tasks[t].kind = "write" /\ Running(result.tasks[t])
       /\ result.tasks[t].i <= ElemCount(writersSchema, result.tasks[t].d)
       /\ MayStart(result.tasks[t])
       /\ result' = [result EXCEPT !.tasks =
                       Stepped(@, t, writeElement(result.tasks[t], writersSchema, options))]
  /\ UNCHANGED <<options, writersSchema, readersSchema, datum, buf, pos, rpos, pc>>

\* a timer settles a promise of toValue
WriteSettled ==
  /\ pc = "walk"
  /\ \E t \in 1..2 :
       /\ result.tasks[t].kind = "write" /\ Running(result.tasks[t])
       /\ \E k \in 1..Len(result.tasks[t].pending) :
            result' = [result EXCEPT !.tasks =
                         Stepped(@, t, writeSettled(result.tasks[t], writersSchema, k, options))]
  /\ UNCHANGED <<options, writersSchema, readersSchema, datum, buf, pos, rpos, pc>>

\* the loop of the writer is over
WriteEnd ==
  /\ pc = "walk"
  /\ \E t \in 1..2 :
       /\ result.tasks[t].kind = "write" /\ Running(result.tasks[t])
       /\ result.tasks[t].i > ElemCount(writersSchema, result.tasks[t].d)
       /\ MayStart(result.tasks[t])
       /\ result' = [result EXCEPT !.tasks = Stepped(@, t, writeEnd(result.tasks[t], writersSchema))]
  /\ UNCHANGED <<options, writersSchema, readersSchema, datum, buf, pos, rpos, pc>>

\* datumReader.read(tap) is called
ReadBegin ==
  /\ pc = "walk"
  /\ \E t \in 1..2 :
       /\ result.tasks[t].kind = "read" /\ result.tasks[t].i = 0 /\ ~result.tasks[t].done
       /\ result' = [result EXCEPT !.tasks = Stepped(@, t, readBegin(result.tasks[t], writersSchema))]
  /\ UNCHANGED <<options, writersSchema, readersSchema, datum, buf, pos, rpos, pc>>

\* the loop of the reader takes its next turn
ReadElement ==
  /\ pc = "walk"
  /\ \E t \in 1..2 :
       /\ result.tasks[t].kind = "read" /\ Running(result.tasks[t])
       /\ result.tasks[t].left > 0
       /\ MayStart(result.tasks[t])
       /\ result' = [result EXCEPT !.tasks =
                       Stepped(@, t, readElement(result.tasks[t], writersSchema, options))]
  /\ UNCHANGED <<options, writersSchema, readersSchema, datum, buf, pos, rpos, pc>>

\* a timer settles a promise of fromValue
ReadSettled ==
  /\ pc = "walk"
  /\ \E t \in 1..2 :
       /\ result.tasks[t].kind = "read" /\ Running(result.tasks[t])
       /\ \E k \in 1..Len(result.tasks[t].pending) :
            result' = [result EXCEPT !.tasks =
                         Stepped(@, t, readSettled(result.tasks[t], writersSchema, k))]
  /\ UNCHANGED <<options, writersSchema, readersSchema, datum, buf, pos, rpos, pc>>

\* datumReader.skipData(writersSchema, tap), which never waits
SkipShared ==
  /\ pc = "walk"
  /\ \E t \in 1..2 :
       /\ result.tasks[t].kind = "skip" /\ ~result.tasks[t].done
       /\ \E r \in {skipData(writersSchema, result.tasks[t].tap)} :
            result' = [result EXCEPT !.tasks =
                         Stepped(@, t, [result.tasks[t] EXCEPT !.tap = r.tap, !.err = r.err,
                                                               !.i = 1, !.done = TRUE])]
  /\ UNCHANGED <<options, writersSchema, readersSchema, datum, buf, pos, rpos, pc>>

\* a record, an array and a map whose parts have the logical type of
\* test/io.js
WalkSchemas ==
  {RecordSchema("record", "Test",
                <<NoDefault(Units("f"), WithLogicalType(StringS, "hello")),
                  NoDefault(Units("g"), StringS)>>),
   ArraySchema(WithLogicalType(StringS, "hello")),
   MapSchema(WithLogicalType(StringS, "hello"))}

\* data of these schemas, for logical types that take strings and for the
\* one that takes numbers
WalkData(s) ==
  CASE s.type = "array" -> {Arr(<<JStr("H"), JStr("1")>>), Arr(<<Num(1), Num(12)>>)}
    [] s.type = "map" ->
         {Obj(<<Entry(Units("a"), JStr("H")), Entry(Units("b"), JStr("1"))>>),
          Obj(<<Entry(Units("a"), Num(1)), Entry(Units("b"), Num(12))>>)}
    [] OTHER ->
         {Obj(<<Entry(Units("f"), JStr("H")), Entry(Units("g"), JStr("1"))>>),
          Obj(<<Entry(Units("f"), Num(12)), Entry(Units("g"), JStr("H"))>>)}

\* the bytes of these data as a writer without logical types leaves them
WalkBytes(s) ==
  { write(s, d, Tap(Zeros(WalkLen), 0), NoOptions).tap.buf :
      d \in { e \in WalkData(s) : write(s, e, Tap(Zeros(WalkLen), 0), NoOptions).err = "none" } }

\* the logical types of test/io.js with and without delay, and those with
\* a function that fails or answers through a promise
WalkOptions ==
  HookOptions \cup {[logicalTypes |-> Obj(<<Entry(Units("hello"), IntAsString(TRUE))>>)]}

WalkTasks(s) ==
  { Task("write", d, Zeros(WalkLen)) : d \in WalkData(s) }
  \cup { Task(kind, Undefined, b) : kind \in {"read", "skip"}, b \in WalkBytes(s) }

\* two calls that have not begun, on one schema and with one set of options
InitWalk ==
  /\ options \in WalkOptions
  /\ writersSchema \in WalkSchemas
  /\ readersSchema = writersSchema
  /\ datum = Undefined
  /\ buf = Zeros(WalkLen)
  /\ pos = 0
  /\ rpos = 0
  /\ pc = "walk"
  /\ \E a \in WalkTasks(writersSchema), b \in WalkTasks(writersSchema) :
       /\ a.kind # "skip"
       /\ result = [op |-> "walk", err |-> "none", val |-> Undefined, tasks |-> <<a, b>>]

NextWalk ==
  \/ WriteBegin \/ WriteElement \/ WriteSettled \/ WriteEnd
  \/ ReadBegin \/ ReadElement \/ ReadSettled
  \/ SkipShared

SpecWalk == InitWalk /\ [][NextWalk]_vars

\* ------------------------------------------------------------------ claims
W == Deref(writersSchema)

R == Deref(readersSchema)

IsRecord(x) == x.type \in {"record", "error", "request"}

FieldNames(x) == { x.fields[j].name : j \in 1..Len(x.fields) }

\* C1: round-trip identity.  For every schema S and every value V that
\* validate(S, V) accepts, writing V under S into a large-enough buffer and
\* reading the bytes back under (S, S) succeeds and yields a value
\* structurally equal to V.
C1_RoundTrip ==
  (pc = "done" /\ writersSchema = readersSchema /\ validate(writersSchema, datum, options)
   /\ isValid(Tap(buf, pos)))
  => (result.err = "none" /\ DeepEqual(result.val, datum))

\* the lowest index (1-based) of a branch that validates the value, 0 if none
FirstValidBranch(schemas, d) ==
  LET valid == {j \in 1..Len(schemas) : validate(schemas[j], d, options)}
  IN  IF valid = {} THEN 0 ELSE CHOOSE j \in valid : \A o \in valid : j <= o

\* C2: writing a value under a union schema writes the index of the FIRST
\* branch that validates the value, then the value under that branch; when no
\* branch validates it, the write fails with a type error.
C2_UnionFirstBranch ==
  (pc = "written" /\ W.type = "union")
  => LET first == FirstValidBranch(W.schemas, datum)
         expected == writeData(W.schemas[first], datum,
                               writeLong(Tap(Zeros(BufLen), 0), Num(first - 1)).tap, options)
     IN  IF first = 0 THEN result.err = "AvroTypeError"
         ELSE /\ result.err = expected.err
              /\ buf = expected.tap.buf
              /\ pos = expected.tap.pos

\* test/io.js: BINARY_ENCODINGS
BINARY_ENCODINGS ==
  { <<0, <<0>>>>, <<-1, <<1>>>>, <<1, <<2>>>>, <<-2, <<3>>>>, <<2, <<4>>>>,
    <<-64, <<127>>>>, <<64, <<128, 1>>>>, <<8192, <<128, 128, 1>>>>,
    <<-8193, <<129, 128, 1>>>> }

\* the value of the 7-bit groups of bs from the second byte on
RECURSIVE HighGroups(_, _)
HighGroups(bs, j) ==
  IF j > Len(bs) THEN 0 ELSE (bs[j] % 128) + 128 * HighGroups(bs, j + 1)

\* bs is the little-endian base-128 form of the zig-zag value of n (2n for
\* n >= 0, -2n-1 for n < 0): the zig-zag value is 2 * half + parity
IsZigZagVarint(bs, n) ==
  /\ Len(bs) >= 1
  /\ \A j \in 1..(Len(bs) - 1) : bs[j] >= 128
  /\ bs[Len(bs)] < 128
  /\ Len(bs) = 1 \/ bs[Len(bs)] # 0
  /\ LET parity == bs[1] % 2
         half == ((bs[1] % 128) \div 2) + 64 * HighGroups(bs, 2)
     IN  IF parity = 0 THEN n = half ELSE n = -half - 1

\* C3: for every integer n, under the int and the long schema, the bytes
\* written are exactly the little-endian base-128 bytes of the zig-zag value
\* of n, the high bit set on every byte but the last; the reference
\* encodings of BINARY_ENCODINGS are produced.
C3_ZigZagVarint ==
  (pc = "written" /\ W.type \in {"int", "long"} /\ IsDyadic(datum) /\ datum.h = 0)
  => /\ result.err = "none"
     /\ IsZigZagVarint(SubSeq(buf, 1, pos), datum.i)
     /\ \A e \in BINARY_ENCODINGS : datum.i = e[1] => SubSeq(buf, 1, pos) = e[2]

C3_Witness ==
  pc = "written" /\ W.type = "long" /\ datum = Num(-8193) /\ pos = 3 /\ buf[1] = 129

\* C4: record projection.  When the writer's record has a field that the
\* reader's record lacks (and the reader has no field the writer lacks), the
\* read succeeds whatever the type of that field, and the result holds every
\* reader field with the value that was written for it.
C4_Projection ==
  (pc = "done" /\ IsRecord(W) /\ IsRecord(R) /\ validate(writersSchema, datum, options)
   /\ FieldNames(R) \subseteq FieldNames(W) /\ FieldNames(W) # FieldNames(R))
  => /\ result.err = "none"
     /\ result.val.k = "object"
     /\ \A name \in FieldNames(R) :
          DeepEqual(GetProp(result.val, name), GetProp(datum, name))
     /\ \A j \in 1..Len(ObjectKeys(result.val)) : ObjectKeys(result.val)[j] \in FieldNames(R)

\* C5: defaults.  For the reader fields that the writer's record lacks: when
\* each has a default, the result holds readDefaultValue(type, default) under
\* its name; when one has no default, the read fails with a
\* schema-resolution error and yields no record.
C5_Defaults ==
  (pc = "done" /\ IsRecord(W) /\ IsRecord(R) /\ validate(writersSchema, datum, options)
   /\ ~(FieldNames(R) \subseteq FieldNames(W)))
  => LET missing == { j \in 1..Len(R.fields) : R.fields[j].name \notin FieldNames(W) }
     IN  IF \A j \in missing : R.fields[j].hasDefault
         THEN /\ result.err = "none"
              /\ \A j \in missing :
                   GetProp(result.val, R.fields[j].name)
                     = readDefaultValue(R.fields[j].type, R.fields[j].default).val
         ELSE result.err = "SchemaResolutionError" /\ result.val = Undefined

\* C6: readDefaultValue for bytes and fixed turns the default string into
\* one byte per code unit (code unit c <= 255 becomes byte c), so that a
\* fixed default of size code units has size bytes.
C6_DefaultBytesLatin1 ==
  (pc = "done" /\ result.op = "default" /\ R.type \in {"bytes", "fixed"})
  => /\ result.err = "none"
     /\ result.val = Buf(datum.cs)
     /\ (R.type = "fixed" /\ Len(datum.cs) = R.size) => Len(result.val.bs) = R.size

RECURSIVE BlocksByTheBook(_, _, _, _)
\* array and map decoding as the block protocol states it: a negative count c
\* stands for |c| items and is followed by one long, the byte size, which is
\* consumed and otherwise unused; a zero count ends the sequence
BlocksByTheBook(w, r, tap, acc) ==
  LET c == readLong(tap)
      n == Abs(c.val.i)
      t1 == IF c.val.i < 0 THEN readLong(c.tap).tap ELSE c.tap
      v == IF w.type = "array"
           THEN readItems(w.items, r.items, n, t1, acc, options)
           ELSE readPairs(w.values, r.values, n, t1, acc, options)
  IN  IF c.val.i = 0 THEN Ret(c.tap, IF w.type = "array" THEN Arr(acc) ELSE Obj(acc), "none")
      ELSE IF v.err # "none" THEN v
      ELSE BlocksByTheBook(w, r, v.tap, v.val)

\* C7: arrays and maps are decoded block by block, a negative count c being
\* read as |c| items after one long (the byte size) that is not the count.
C7_NegativeBlockCount ==
  (pc = "done" /\ W.type \in {"array", "map"})
  => LET e == BlocksByTheBook(W, R, Tap(buf, 0), <<>>)
     IN  result.err = e.err /\ result.val = e.val /\ rpos = e.tap.pos

PromotionPairs ==
  { <<"int", "long">>, <<"int", "float">>, <<"int", "double">>,
    <<"long", "float">>, <<"long", "double">>, <<"float", "double">> }

NarrowingPairs == { <<p[2], p[1]>> : p \in PromotionPairs }

IsUnionType(x) == x.type \in {"union", "error_union"}

\* the cases in which two schemas match
MatchCases(w, r) ==
  \/ IsUnionType(w) \/ IsUnionType(r)
  \/ w.type \in PRIMITIVE_TYPES /\ r.type = w.type
  \/ w.type \in {"record", "error"} /\ r.type = w.type /\ w.fullname = r.fullname
  \/ w.type = "request" /\ r.type = "request"
  \/ w.type = "fixed" /\ r.type = "fixed" /\ w.fullname = r.fullname /\ w.size = r.size
  \/ w.type = "enum" /\ r.type = "enum" /\ w.fullname = r.fullname
  \/ w.type = "map" /\ r.type = "map" /\ Deref(w.values).type = Deref(r.values).type
  \/ w.type = "array" /\ r.type = "array" /\ Deref(w.items).type = Deref(r.items).type
  \/ <<w.type, r.type>> \in PromotionPairs

\* C8: matchSchemas(w, r) is true exactly in the cases of MatchCases; no
\* narrowing pair matches.
C8_MatchSchemas ==
  (pc = "done" /\ result.op = "match")
  => /\ result.val = Bool(MatchCases(W, R))
     /\ <<W.type, R.type>> \in NarrowingPairs => result.val = Bool(FALSE)

C8_Witness ==
  /\ pc = "done" /\ result.op = "match"
  /\ W = FixedSchema("Test", 2) /\ R = FixedSchema("Test", 3)
  /\ result.val = Bool(FALSE)

\* C9: with a writer's schema that is no union and a reader's schema that is
\* one, the datum is decoded against the first reader branch that matches
\* the writer's schema; when none matches, the read fails with a
\* schema-resolution error and consumes nothing.
C9_ReaderUnion ==
  (pc = "done" /\ result.op = "read" /\ ~IsUnionType(W) /\ IsUnionType(R))
  => LET ms == {j \in 1..Len(R.schemas) : matchSchemas(W, R.schemas[j])}
         first == CHOOSE j \in ms : \A o \in ms : j <= o
         e == readData(W, R.schemas[first], Tap(buf, 0), options)
     IN  IF ms = {} THEN result.err = "SchemaResolutionError" /\ rpos = 0
         ELSE result.err = e.err /\ result.val = e.val /\ rpos = e.tap.pos

\* the number a single byte below 128 stands for
ZigZagOfByte(b) == IF b % 2 = 0 THEN b \div 2 ELSE -((b + 1) \div 2)

\* C10: decoding an enum fails with a schema-resolution error when the index
\* read is >= the number of writer symbols, and when the writer's symbol at
\* the index (none, for a negative index) is not a reader symbol; otherwise
\* it yields the writer's symbol at the index.
C10_ReadEnum ==
  (pc = "done" /\ result.op = "read" /\ W.type = "enum" /\ R.type = "enum" /\ buf[1] < 128)
  => LET index == ZigZagOfByte(buf[1])
     IN  IF index >= Len(W.symbols) \/ index < 0
            \/ ~SeqIncludes(R.symbols, W.symbols[index + 1])
         THEN result.err = "SchemaResolutionError" /\ result.val = Undefined
         ELSE result.err = "none" /\ result.val = Str(W.symbols[index + 1])

C10_Witness ==
  /\ pc = "done" /\ result.op = "read"
  /\ W = EnumFoo /\ R = EnumFooBar /\ buf[1] = 2
  /\ result.err = "SchemaResolutionError"


\* C11: DatumWriter.write validates the value before any cursor operation:
\* when validate(schema, value) is false the write fails with the type error
\* and leaves the cursor's position and the buffer as they were.
C11_ValidateBeforeWrite ==
  [][(Write /\ ~validate(writersSchema, datum, options))
     => (result'.err = "AvroTypeError" /\ buf' = buf /\ pos' = pos)]_vars

\* C12: validate on a record / error / request schema is true if and only if
\* the value is a mapping, every key of the value is a declared field name,
\* and every declared field validates against its type, a field whose key is
\* missing being validated as null.
C12_ValidateRecord ==
  (pc = "done" /\ result.op = "validate" /\ IsRecord(W))
  => (result.val.b
      <=> /\ isObject(datum)
          /\ \A j \in 1..Len(ObjectKeys(datum)) : ObjectKeys(datum)[j] \in FieldNames(W)
          /\ \A j \in 1..Len(W.fields) :
               validate(W.fields[j].type,
                        IF HasKey(datum, W.fields[j].name)
                        THEN GetProp(datum, W.fields[j].name) ELSE Null, options))

\* the test of "contains a dot"
HasDot(cs) == \E j \in 1..Len(cs) : cs[j] = 46

C15_AddNameRejects ==
  [][AddName =>
       LET toAdd == Name(datum'.xs[1], datum'.xs[2], writersSchema.defaultNamespace)
       IN  (toAdd.err = "none"
            /\ (toAdd._full.cs \in { Units(t) : t \in VALID_TYPES }
                \/ hasOwnName(writersSchema, toAdd._full.cs)))
           => (result'.err # "none" /\ writersSchema' = writersSchema)]_vars

\* the JSON value parse makes its schema from
JsonOf(input) == IF input.k = "text" THEN input.json ELSE input

\* a JSON object of a named type with an un-dotted name and a non-empty
\* namespace stated beside it
ExplicitlyNamed(json) ==
  /\ json # Undefined
  /\ json.k = "object"
  /\ TypeIn(Prop(json, "type"), NAMED_TYPES) # ""
  /\ isString(Prop(json, "name")) /\ Prop(json, "name").cs # <<>>
  /\ ~HasDot(Prop(json, "name").cs)
  /\ isString(Prop(json, "namespace")) /\ Prop(json, "namespace").cs # <<>>

\* the fullname namespace.name of such an object
StatedFullname(json) == Prop(json, "namespace").cs \o <<46>> \o Prop(json, "name").cs

\* C14: parsing a fixed, enum, record or error JSON object with an un-dotted
\* name N and an explicit non-empty namespace S gives a schema of fullname
\* S.N, registered under S.N, at the top of the text and as the type of a
\* field of a record with another default namespace
C14_ExplicitNamespace ==
  [][Parse =>
       /\ ExplicitlyNamed(JsonOf(datum)) =>
            /\ result'.err = "none"
            /\ writersSchema'.fullname = StatedFullname(JsonOf(datum))
            /\ HasKey(result'.val, StatedFullname(JsonOf(datum)))
       /\ \A j \in 1..Len(ObjectEntries(Prop(JsonOf(datum), "fields"))) :
            ExplicitlyNamed(Prop(Prop(JsonOf(datum), "fields").xs[j], "type")) =>
              /\ result'.err = "none"
              /\ writersSchema'.fields[j].type.fullname
                   = StatedFullname(Prop(Prop(JsonOf(datum), "fields").xs[j], "type"))
              /\ HasKey(result'.val, StatedFullname(Prop(Prop(JsonOf(datum), "fields").xs[j], "type")))]_vars

\* C16: for every schema S that parse accepts, parse(S.toString()) does not
\* throw and the schema parsed again equals S
C16_RoundTrip ==
  (result.op = "equals" /\ rpos = 0) => (result.err = "none" /\ result.val = Bool(TRUE))

\* the namespace of a fullname and the name without it, as Name.getSpace
\* divides a fullname
SpaceOf(fullname) == getSpace(Name(Str(fullname), Undefined, Undefined))

ShortName(fullname) ==
  IF SpaceOf(fullname) = Undefined THEN fullname
  ELSE SubSeq(fullname, Len(SpaceOf(fullname).cs) + 2, Len(fullname))

\* the schemas of a union that toJson writes, in order
WrittenSchemas(schema) ==
  IF schema.class = "ErrorUnionSchema"
  THEN SelectSeq(schema.schemas, LAMBDA s : s.type # "string")
  ELSE schema.schemas

\* every use of a name in the schema is written in json, the text of the
\* schema, as the reference the rule asks for under the default namespace
\* space, and that reference names the same fullname there
RECURSIVE RefsResolve(_, _, _)
RefsResolve(schema, json, space) ==
  CASE schema.type = "$ref" ->
         /\ isString(json)
         /\ json.cs = IF SpaceOf(schema.key) = space THEN ShortName(schema.key) ELSE schema.key
         /\ Name(json, Undefined, space)._full = Str(schema.key)
    [] schema.type \in {"record", "error"} ->
         \A j \in 1..Len(schema.fields) :
           RefsResolve(schema.fields[j].type, Prop(Prop(json, "fields").xs[j], "type"),
                       IF schema.type = "record" THEN SpaceOf(schema.fullname) ELSE space)
    [] schema.type = "union" ->
         \A j \in 1..Len(WrittenSchemas(schema)) :
           RefsResolve(WrittenSchemas(schema)[j], json.xs[j], space)
    [] schema.type = "array" -> RefsResolve(schema.items, Prop(json, "items"), space)
    [] schema.type = "map" -> RefsResolve(schema.values, Prop(json, "values"), space)
    [] OTHER -> TRUE

\* C17: in the text of a whole schema, a named schema that was written
\* earlier in the pass is written as a string: its fullname when its
\* namespace differs from the default namespace at that place, its short
\* name when they are the same; parsed at that place the string names the
\* same fullname
C17_NameReference ==
  (pc = "text" /\ rpos = 0) => RefsResolve(writersSchema, result.val.json, Undefined)

\* C18: for every parsed record R and every field of R with type T,
\* parse(T.toString()) does not throw and gives a schema equal to T, also
\* when T names R or a named type defined elsewhere in R
C18_Extraction ==
  (result.op = "equals" /\ rpos > 0) => (result.err = "none" /\ result.val = Bool(TRUE))

\* the logical type that options.logicalTypes registers for the schema: an
\* own property of logicalTypes that holds an object, Undefined if none
RegisteredFor(schema) ==
  IF /\ LogicalTypeOf(schema) # Undefined
     /\ options.logicalTypes # Undefined
     /\ HasKey(options.logicalTypes, PropertyKey(LogicalTypeOf(schema)))
     /\ GetProp(options.logicalTypes, PropertyKey(LogicalTypeOf(schema))).k = "object"
  THEN GetProp(options.logicalTypes, PropertyKey(LogicalTypeOf(schema)))
  ELSE Undefined

\* the schema without its own logicalType
Plain(schema) == [f \in DOMAIN schema \ {"logicalType"} |-> schema[f]]

\* the raw datum: what is decoded from the buffer under the reader's schema
\* before the logical type of that schema is looked at
RawDatum == readData(Plain(writersSchema), Plain(readersSchema), Tap(buf, 0), options)

\* C19: read returns fromValue(raw) when the logical type of the reader's
\* schema is registered and validateBeforeFromValue(raw) is true, raw when
\* it is false, and raw when the logical type is not registered
C19_FromValue ==
  (pc = "done" /\ result.op = "read" /\ RawDatum.err = "none") =>
    /\ result.err = "none"
    /\ result.val =
         IF RegisteredFor(readersSchema) # Undefined
            /\ Truthy(Call(RegisteredFor(readersSchema).validateBeforeFromValue, RawDatum.val).val)
         THEN Call(RegisteredFor(readersSchema).fromValue, RawDatum.val).val
         ELSE RawDatum.val

\* what a writer without options leaves of a write of v on the empty buffer
PlainWrite(v) == write(writersSchema, v, Tap(Zeros(BufLen), 0), NoOptions)

\* C20: for a schema whose logical type is registered, a write of v that is
\* carried out leaves the bytes that writing toValue(v) leaves with no
\* logical type registered, also when toValue returns a promise; with no
\* logical type registered for the schema v is written as without options
C20_ToValue ==
  (pc = "written" /\ result.op = "write" /\ writersSchema.type \in PRIMITIVE_TYPES) =>
    IF RegisteredFor(writersSchema) # Undefined
    THEN result.err = "none" =>
           Tap(buf, pos) = PlainWrite(Call(RegisteredFor(writersSchema).toValue, datum).val).tap
    ELSE result.err = PlainWrite(datum).err /\ Tap(buf, pos) = PlainWrite(datum).tap

\* the reason a call fails with: the error it throws or the reason of the
\* rejected promise it returns, "none" if it does not fail
Failure(c) ==
  IF c.err # "none" THEN c.err ELSE IF Rejects(c.val) THEN c.val.reason ELSE "none"

\* C21: when a function of the registered logical type of the schema fails
\* with a reason, by throwing or by a rejected promise, the write or read
\* that called it fails with that reason: validateBeforeToValue and, when
\* the datum was accepted, toValue on write; validateBeforeFromValue and,
\* when the raw datum was accepted, fromValue on read
C21_HookFailure ==
  RegisteredFor(writersSchema) # Undefined =>
    LET L == RegisteredFor(writersSchema)
        Fails(hook, v) == Failure(Call(L[hook], v))
        Accepts(hook, v) == Fails(hook, v) = "none" /\ Truthy(Await(Call(L[hook], v).val))
    IN /\ (pc = "written" /\ result.op = "write") =>
            /\ Fails("validateBeforeToValue", datum) # "none" =>
                 result.err = Fails("validateBeforeToValue", datum)
            /\ (Accepts("validateBeforeToValue", datum) /\ Fails("toValue", datum) # "none") =>
                 result.err = Fails("toValue", datum)
       /\ (pc = "done" /\ result.op = "read" /\ RawDatum.err = "none") =>
            /\ Fails("validateBeforeFromValue", RawDatum.val) # "none" =>
                 result.err = Fails("validateBeforeFromValue", RawDatum.val)
            /\ (Accepts("validateBeforeFromValue", RawDatum.val)
                /\ Fails("fromValue", RawDatum.val) # "none") =>
                 result.err = Fails("fromValue", RawDatum.val)

\* whether the function answers through a promise that is later resolved
\* with a falsy value
LaterRefuses(function, v) ==
  /\ Call(function, v).err = "none"
  /\ Call(function, v).val.k = "promise"
  /\ ~Rejects(Call(function, v).val)
  /\ ~Truthy(Await(Call(function, v).val))

\* C22: when validateBeforeToValue of the registered logical type of the
\* schema answers through a promise that is resolved with false, write fails
\* with the type error and writes no byte; when validateBeforeFromValue
\* does, read returns the raw datum, to which fromValue was not applied
C22_AsyncValidation ==
  RegisteredFor(writersSchema) # Undefined =>
    /\ (/\ pc = "written" /\ result.op = "write"
        /\ LaterRefuses(RegisteredFor(writersSchema).validateBeforeToValue, datum)) =>
         /\ result.err = createAvroTypeError(writersSchema)
         /\ buf = Zeros(BufLen) /\ pos = 0
    /\ (/\ pc = "done" /\ result.op = "read" /\ RawDatum.err = "none"
        /\ LaterRefuses(RegisteredFor(readersSchema).validateBeforeFromValue, RawDatum.val)) =>
         /\ result.err = "none"
         /\ result.val = RawDatum.val

\* whether the step reads a fixed, bytes or string whose length is negative
NegativeLength ==
  \/ result'.op \in {"readBytes", "readString"}
     /\ "i" \in DOMAIN readLong(Tap(buf, pos)).val
     /\ readLong(Tap(buf, pos)).val.i < 0
  \/ result'.op = "readFixed" /\ datum'.i < 0

\* C23: no read or skip method leaves the position of the cursor negative;
\* readFixed, readBytes and readString with a negative length return no
\* data, raise nothing and leave the cursor invalid
C23_NonNegative ==
  [][pc' = "read" =>
       /\ pos' >= 0
       /\ NegativeLength =>
            /\ result'.err = "none"
            /\ result'.val \in {Undefined, Buf(<<>>), Str(<<>>)}
            /\ ~isValid(Tap(buf', pos'))]_vars

\* the write method op called with arg on the cursor tap
WriteOn(op, arg, tap) ==
  CASE op = "writeBoolean" -> Ret(writeBoolean(tap, arg), Undefined, "none")
    [] op = "writeLong" -> writeLong(tap, arg)
    [] op = "writeFloat" -> Ret(writeFloat(tap, arg), Undefined, "none")
    [] op = "writeDouble" -> Ret(writeDouble(tap, arg), Undefined, "none")
    [] op = "writeFixed" -> Ret(writeFixed(tap, arg, Len(arg.bs)), Undefined, "none")
    [] op = "writeBytes" -> writeBytes(tap, arg)
    [] op = "writeString" -> writeString(tap, arg)
    [] op = "write" -> write(writersSchema', arg, tap, NoOptions)

\* the number of bytes of the varint of m
RECURSIVE VarintLen(_)
VarintLen(m) == IF m < 128 THEN 1 ELSE 1 + VarintLen(m \div 128)

\* the zig-zag code of n is 2 * j or 2 * j + 1: its first byte holds the
\* sign and six bits of j
ZigZagLen(n) ==
  IF (IF n >= 0 THEN n ELSE -(n + 1)) < 64 THEN 1
  ELSE 1 + VarintLen((IF n >= 0 THEN n ELSE -(n + 1)) \div 64)

\* the length of the encoding of the argument of a write method
EncodedLength(op, arg) ==
  CASE op = "writeBoolean" -> 1
    [] op = "writeLong" -> ZigZagLen(arg.i)
    [] op = "writeFloat" -> 4
    [] op = "writeDouble" -> 8
    [] op = "writeFixed" -> Len(arg.bs)
    [] op = "writeBytes" -> ZigZagLen(Len(arg.bs)) + Len(arg.bs)
    [] op = "writeString" -> ZigZagLen(byteLength(arg.cs)) + byteLength(arg.cs)
    [] op = "write" -> WriteOn(op, arg, Tap(Zeros(4 * TapLen), 0)).tap.pos

\* C24: every write method, and DatumWriter.write, called at any position
\* that is not negative on a buffer of any length raises nothing and moves
\* the position by the length of the encoding of its argument, as it does on
\* a buffer that is large enough; the buffer keeps its length and the cursor
\* is valid afterwards exactly when the encoding fitted
C24_OverflowSilent ==
  [][pc' = "wrote" =>
       /\ result'.err = "none"
       /\ pos' - pos = EncodedLength(result'.op, datum')
       /\ pos' - pos = WriteOn(result'.op, datum', Tap(Zeros(4 * TapLen), 0)).tap.pos
       /\ Len(buf') = Len(buf)
       /\ isValid(Tap(buf', pos')) <=> (pos + EncodedLength(result'.op, datum') <= Len(buf))]_vars

\* a string was written on a buffer too small for it, and a datum too
C24_Witness ==
  /\ pc = "wrote"
  /\ result.op \in {"writeString", "write"}
  /\ result.err = "none"
  /\ pos > Len(buf)
  /\ datum \in {Str(<<8364, 97>>), Str(<<97, 98, 99>>)}

\* C25: on the bytes that a write of a valid datum under a schema left,
\* skipData under that schema raises nothing and leaves the cursor where
\* readData under that schema leaves it; on an int or long followed by
\* another, the read after the skip returns the other
C25_SkipAgreesWithRead ==
  /\ (pc = "skipped" /\ datum # Undefined) =>
       /\ result.err = "none"
       /\ readData(writersSchema, writersSchema, Tap(buf, 0), options).err = "none" =>
            rpos = readData(writersSchema, writersSchema, Tap(buf, 0), options).tap.pos
  /\ (pc = "done" /\ result.op = "read" /\ writersSchema.type \in {"int", "long"}) =>
       /\ result.err = "none"
       /\ result.val = Num(VALUE_TO_READ)

\* skipping the blocks of an array or map as the format says: a block with a
\* negative count is followed by its size in bytes, and is jumped over by
\* that size; met tells whether such a block was met.  A negative size is
\* no block ("malformed")
RECURSIVE SkipByTheBook(_, _, _)
SkipByTheBook(w, tap, met) ==
  Bind(readLong(tap), LAMBDA c :
    IF c.val.i = 0 THEN Ret(c.tap, Bool(met), "none")
    ELSE IF c.val.i < 0
    THEN Bind(readLong(c.tap), LAMBDA size :
           IF size.val.i < 0 THEN Ret(size.tap, Bool(TRUE), "malformed")
           ELSE SkipByTheBook(w, Tap(tap.buf, size.tap.pos + size.val.i), TRUE))
    ELSE Bind(IF w.type = "array" THEN skipItems(w.items, c.val.i, c.tap)
              ELSE skipPairs(w.values, c.val.i, c.tap), LAMBDA k :
           IF k.err # "none" THEN k ELSE SkipByTheBook(w, k.tap, met)))

\* C26: on an array or map with a block of negative count, skipData reads
\* the size of the block and moves the cursor by that many bytes to the
\* next block, goes on to the block of count zero and raises nothing
C26_SkipBlockSize ==
  (/\ pc = "skipped" /\ datum = Undefined
   /\ SkipByTheBook(writersSchema, Tap(buf, 0), FALSE).err = "none"
   /\ SkipByTheBook(writersSchema, Tap(buf, 0), FALSE).val = Bool(TRUE)) =>
    /\ result.err = "none"
    /\ rpos = SkipByTheBook(writersSchema, Tap(buf, 0), FALSE).tap.pos

\* the sequences of a sequence, one after the other
RECURSIVE Flat(_)
Flat(seqs) == IF seqs = <<>> THEN <<>> ELSE Head(seqs) \o Flat(Tail(seqs))

\* the position of the last dot of a string, 0 if it has none
LastDot(cs) == IF HasDot(cs) THEN CHOOSE j \in 1..Len(cs) : cs[j] = 46 /\ ~HasDot(SubSeq(cs, j + 1, Len(cs))) ELSE 0

\* the namespace of a fullname: its prefix up to the last dot, or empty
LastSpace(fullname) == SubSeq(fullname, 1, LastDot(fullname) - 1)

\* the fullname of the name stated with a namespace beside it, or without
\* one, where the namespace in force is ns
BookFullname(name, namespace, ns) ==
  IF HasDot(name.cs) THEN name.cs
  ELSE IF isString(namespace) /\ namespace.cs # <<>> THEN namespace.cs \o <<46>> \o name.cs
  ELSE IF ns # <<>> THEN ns \o <<46>> \o name.cs
  ELSE name.cs

\* the names a schema text declares ("def") and uses ("ref"), in the order
\* of the text, under the rule of scoping: inside the fields of a record or
\* error the namespace in force is the namespace of its fullname
RECURSIVE BookNames(_, _)
BookNames(json, ns) ==
  CASE isString(json) /\ TypeIn(json, PRIMITIVE_TYPES) # "" -> <<>>
    [] isString(json) /\ TypeIn(json, PRIMITIVE_TYPES) = "" ->
         <<<<"ref", BookFullname(json, Undefined, ns)>>>>
    [] json.k = "array" -> Flat([j \in 1..Len(json.xs) |-> BookNames(json.xs[j], ns)])
    [] json.k = "object" /\ TypeIn(Prop(json, "type"), {"fixed", "enum"}) # "" ->
         <<<<"def", BookFullname(Prop(json, "name"), Prop(json, "namespace"), ns)>>>>
    [] json.k = "object" /\ TypeIn(Prop(json, "type"), {"record", "error"}) # "" ->
         <<<<"def", BookFullname(Prop(json, "name"), Prop(json, "namespace"), ns)>>>>
         \o Flat([j \in 1..Len(Prop(json, "fields").xs) |->
                    BookNames(Prop(Prop(json, "fields").xs[j], "type"),
                              LastSpace(BookFullname(Prop(json, "name"), Prop(json, "namespace"), ns)))])
    [] json.k = "object" /\ TypeIn(Prop(json, "type"), {"array"}) # "" ->
         BookNames(Prop(json, "items"), ns)
    [] json.k = "object" /\ TypeIn(Prop(json, "type"), {"map"}) # "" ->
         BookNames(Prop(json, "values"), ns)
    [] json.k = "object" /\ TypeIn(Prop(json, "type"), {"error_union"}) # "" ->
         BookNames(Prop(json, "declared_errors"), ns)
    [] OTHER -> <<>>

\* the names a parsed schema declares and uses, in the order of its tree
RECURSIVE ParsedNames(_)
ParsedNames(schema) ==
  CASE schema.type = "$ref" -> <<<<"ref", schema.key>>>>
    [] schema.type \in {"fixed", "enum"} -> <<<<"def", schema.fullname>>>>
    [] schema.type \in {"record", "error"} ->
         <<<<"def", schema.fullname>>>>
         \o Flat([j \in 1..Len(schema.fields) |-> ParsedNames(schema.fields[j].type)])
    [] schema.type = "union" ->
         Flat([j \in 1..Len(WrittenSchemas(schema)) |-> ParsedNames(WrittenSchemas(schema)[j])])
    [] schema.type = "array" -> ParsedNames(schema.items)
    [] schema.type = "map" -> ParsedNames(schema.values)
    [] OTHER -> <<>>

\* C27: in a schema that parse accepts and that states no namespace beside
\* its own name, a named type declared inside the
\* fields of a record or error of fullname ns.X with an un-dotted name N and
\* no namespace has the fullname ns.N and is registered under it, an
\* un-dotted use of N there names ns.N, and after the record names are
\* again resolved against the namespace that was in force before it
C27_NamespaceScope ==
  (pc = "parsed" /\ result.op = "parse" /\ result.err = "none"
   /\ ~ExplicitlyNamed(JsonOf(datum))) =>
    /\ ParsedNames(writersSchema) = BookNames(JsonOf(datum), <<>>)
    /\ { ObjectKeys(result.val)[j] : j \in 1..Len(ObjectKeys(result.val)) }
         = { BookNames(JsonOf(datum), <<>>)[j][2] :
               j \in { i \in 1..Len(BookNames(JsonOf(datum), <<>>)) :
                         BookNames(JsonOf(datum), <<>>)[i][1] = "def" } }

\* what the call gives when nothing else runs: the cursor it leaves, the
\* error it ends with and the value it returns
Alone(task) ==
  CASE task.kind = "write" -> write(writersSchema, task.d, Tap(task.first, 0), options)
    [] task.kind = "read" ->
         Awaited(read(writersSchema, readersSchema, Tap(task.first, 0), options))
    [] OTHER -> skipData(writersSchema, Tap(task.first, 0))

SameAsAlone(task) ==
  task.done =>
    /\ task.tap = Alone(task).tap
    /\ task.err = Alone(task).err
    /\ (task.kind = "read" /\ task.err = "none") => task.val = Alone(task).val

Now(function) ==
  CASE function = "rejectE" -> "throwE"
    [] function = "laterFalse" -> "no"
    [] function = "laterTrue" -> "yes"
    [] OTHER -> function

\* the options with the functions of the logical type completing immediately
Immediately(opts) ==
  [logicalTypes |->
     Obj(<<Entry(Units("hello"),
                 [k |-> "object", delay |-> FALSE,
                  toValue |-> Now(opts.logicalTypes.es[1].val.toValue),
                  validateBeforeToValue |-> Now(opts.logicalTypes.es[1].val.validateBeforeToValue),
                  fromValue |-> Now(opts.logicalTypes.es[1].val.fromValue),
                  validateBeforeFromValue |->
                    Now(opts.logicalTypes.es[1].val.validateBeforeFromValue)])>>)]

\* the call with immediate functions: the cursor, the error and the value
AtOnce(task) ==
  IF task.kind = "write"
  THEN write(writersSchema, task.d, Tap(task.first, 0), Immediately(options))
  ELSE Awaited(read(writersSchema, readersSchema, Tap(task.first, 0), Immediately(options)))

\* the parts as they are before fromValue or toValue: those of the datum of
\* a write, those a reader without logical types finds in the bytes of a read
RawParts(task) ==
  IF task.kind = "write" THEN task.d
  ELSE read(writersSchema, readersSchema, Tap(task.first, 0), NoOptions).val

\* whether a function of the logical type that the call calls for part j
\* fails, by throwing or by a rejected promise
HookFailsAt(task, j) ==
  LET L == logicalTypeObject(Deref(ElemSchema(writersSchema, j)), options)
      e == ElemDatum(writersSchema, RawParts(task), j)
  IN /\ L # Undefined
     /\ HasHooks(L)
     /\ IF task.kind = "write"
        THEN \/ Failure(Call(L.validateBeforeToValue, e)) # "none"
             \/ Failure(Call(L.toValue, e)) # "none"
        ELSE \/ Failure(Call(L.validateBeforeFromValue, e)) # "none"
             \/ /\ Truthy(Call(L.validateBeforeFromValue, e).val)
                /\ Failure(Call(L.fromValue, e)) # "none"

\* C28: in a write or a read of a record, an array or a map whose parts have
\* a logical type with functions that answer through promises settled after
\* any delay, the cursor operations are made part after part in the order of
\* the schema; the call ends with the bytes, the cursor and the value it ends
\* with when the functions answer at once; and when a function fails for
\* part j, no cursor operation is made for a later part
C28_WalkOrder ==
  \A t \in 1..2 :
    LET task == result.tasks[t]
    IN (pc = "walk" /\ task.kind \in {"write", "read"}) =>
         /\ \A a \in 1..Len(task.log), b \in 1..Len(task.log) :
              a < b => task.log[a] <= task.log[b]
         /\ task.done =>
              /\ task.tap = AtOnce(task).tap
              /\ task.err = AtOnce(task).err
              /\ (task.kind = "read" /\ task.err = "none") => task.val = AtOnce(task).val
         /\ task.i > 0 =>
              \A j \in 1..ElemCount(writersSchema, RawParts(task)) :
                HookFailsAt(task, j) => \A a \in 1..Len(task.log) : task.log[a] <= j

\* C30: a write whose datum validate refuses fails with the type error that
\* carries the datum and the schema as JSON, and a read whose writer's and
\* reader's schemas do not match fails with the schema-resolution error that
\* carries both schemas as JSON, whatever the schema, a record that refers to
\* itself included; no other error comes from building the error
C30_ErrorCarriesSchema ==
  /\ (/\ pc = "written" /\ result.op = "write"
      /\ ~validateThrows(writersSchema, datum, options)
      /\ ~validate(writersSchema, datum, options)) =>
       result.err = "AvroTypeError"
  /\ (/\ pc = "done" /\ result.op = "read"
      /\ ~matchSchemas(writersSchema, readersSchema)) =>
       result.err = "SchemaResolutionError"

=============================================================================
